---- MODULE Spec2Model ----
(***************************************************************************)
(* HVDC warehouse stock engine: extraction of movements from per-case      *)
(* location/date columns, monthly and daily ledgers, and their validators. *)
(* Text is modelled as sequences of one-character strings so that the      *)
(* substring rules of the source are computed, not assumed.                *)
(***************************************************************************)
EXTENDS Integers, Sequences, FiniteSets, TLC

VARIABLES df, movements, daily_stock, monthly_results, validation,
          first_results, first_validation, corrected_results,
          corrected_validation, deliveries, pc, run,
          invoice_df, all_cost_records, cost_analysis,
          label, canonical, renamed, other_movements, other_results

vars == <<df, movements, daily_stock, monthly_results, validation,
          first_results, first_validation, corrected_results,
          corrected_validation, deliveries, pc, run,
          invoice_df, all_cost_records, cost_analysis,
          label, canonical, renamed, other_movements, other_results>>

\* the label handed to normalize_warehouse_name, what it returned and what it
\* returned for that; a second stream handed to the aggregator and its ledger
name_vars == <<label, canonical, renamed, other_movements, other_results>>

-----------------------------------------------------------------------------
(* Bounds of the model *)

MaxRecords == 1

MaxCells == 3

-----------------------------------------------------------------------------
(* Text *)

UpperChars == <<"A", "B", "C", "D", "E", "F", "G", "H", "I", "J", "K", "L", "M", "N", "O", "P", "Q", "R", "S", "T", "U", "V", "W", "X", "Y", "Z">>

LowerChars == <<"a", "b", "c", "d", "e", "f", "g", "h", "i", "j", "k", "l", "m", "n", "o", "p", "q", "r", "s", "t", "u", "v", "w", "x", "y", "z">>

\* the characters of the labels, in code point order
CodeOrder == <<" ", "#", "'", "(", ")", ".", "0", "1", "2", "3", "4", "5", "6", "7", "8", "9", "A", "B", "C", "D", "E", "F", "G", "H", "I", "J", "K", "L", "M", "N", "O", "P", "Q", "R", "S", "T", "U", "V", "W", "X", "Y", "Z", "_", "a", "b", "c", "d", "e", "f", "g", "h", "i", "j", "k", "l", "m", "n", "o", "p", "q", "r", "s", "t", "u", "v", "w", "x", "y", "z">>

IndexIn(seq, c) == CHOOSE i \in 1..Len(seq) : seq[i] = c

\* the lower case of every character, and its code point rank
LowerTable ==
    [c \in {CodeOrder[i] : i \in 1..Len(CodeOrder)} |->
        IF \E i \in 1..Len(UpperChars) : UpperChars[i] = c
        THEN LowerChars[IndexIn(UpperChars, c)]
        ELSE c]

OrdTable == [c \in {CodeOrder[i] : i \in 1..Len(CodeOrder)} |-> IndexIn(CodeOrder, c)]

LowerChar(c) == LowerTable[c]

\* str.lower()
lower(s) == [i \in 1..Len(s) |-> LowerChar(s[i])]

\* Python's  sub in s
Contains(s, sub) ==
    \E i \in 0..(Len(s) - Len(sub)) : SubSeq(s, i + 1, i + Len(sub)) = sub

Ord(c) == OrdTable[c]

\* Python's  a < b  on str: lexicographic by code point
RECURSIVE StrLess(_, _)
StrLess(a, b) ==
    IF b = <<>> THEN FALSE
    ELSE IF a = <<>> THEN TRUE
    ELSE IF Ord(a[1]) # Ord(b[1]) THEN Ord(a[1]) < Ord(b[1])
    ELSE StrLess(Tail(a), Tail(b))

\* None / NaN in a text position (no label of the model is empty)
None == <<>>

UNKNOWN == <<"U", "N", "K", "N", "O", "W", "N">>

UNK == <<"U", "N", "K">>

-----------------------------------------------------------------------------
(* Numbers as pandas holds them: a value or NaN *)

NaN == [nan |-> TRUE, v |-> 0]

Num(n) == [nan |-> FALSE, v |-> n]

\* Quantities and stock are counted in hundredths of a unit, the resolution of
\* the validators' tolerance: n whole units
Whole(n) == n * 100

-----------------------------------------------------------------------------
(* Timestamps *)

NaT == [y |-> 0, m |-> 0, d |-> 0]

Date(y, m, d) == [y |-> y, m |-> m, d |-> d]

DateLess(a, b) ==
    \/ a.y < b.y
    \/ a.y = b.y /\ a.m < b.m
    \/ a.y = b.y /\ a.m = b.m /\ a.d < b.d

\* the dates the record reader supplies in the model
SampleDates == {Date(2024, 1, 10), Date(2024, 1, 20), Date(2024, 2, 5)}

\* dates with months between them in which nothing happens
GapDates == {Date(2024, 1, 10), Date(2024, 4, 2)}

SampleQty == {Whole(1), Whole(5)}

\* pd.to_datetime(...).dt.to_period('M').astype(str), strftime('%Y-%m'):
\* the year and the month, zero padded, so that text order is <<year, month>> order
YearMonthOf(date) == <<date.y, date.m>>

NoYearMonth == <<0, 0>>

MonthLess(a, b) == a[1] < b[1] \/ (a[1] = b[1] /\ a[2] < b[2])

-----------------------------------------------------------------------------
(* HVDCStockEngine: columns and names *)

RECURSIVE FirstColumn(_, _, _)
FirstColumn(columns, pattern, i) ==
    IF i > Len(columns) THEN None
    ELSE IF Contains(lower(columns[i]), lower(pattern)) THEN columns[i]
    ELSE FirstColumn(columns, pattern, i + 1)

RECURSIVE find_column(_, _)
find_column(columns, patterns) ==
    IF patterns = <<>> THEN None
    ELSE IF FirstColumn(columns, Head(patterns), 1) # None
         THEN FirstColumn(columns, Head(patterns), 1)
         ELSE find_column(columns, Tail(patterns))

\* a variant whose fourth name holds a keyword of the first rule
RulesWithCapturedName == <<
    [keys |-> {<<"i", "n", "d", "o", "o", "r">>, <<"m", "4", "4">>},
     name |-> <<"D", "S", "V", " ", "I", "n", "d", "o", "o", "r">>],
    [keys |-> {<<"m", "a", "r", "k", "a", "z">>, <<"m", "1">>},
     name |-> <<"D", "S", "V", " ", "A", "l", " ", "M", "a", "r", "k", "a", "z">>],
    [keys |-> {<<"o", "u", "t", "d", "o", "o", "r">>},
     name |-> <<"D", "S", "V", " ", "O", "u", "t", "d", "o", "o", "r">>],
    [keys |-> {<<"m", "o", "s", "b">>},
     name |-> <<"M", "O", "S", "B", " ", "I", "n", "d", "o", "o", "r">>],
    [keys |-> {<<"m", "z", "p">>},
     name |-> <<"D", "S", "V", " ", "M", "Z", "P">>],
    [keys |-> {<<"d", "h", "l">>},
     name |-> <<"D", "H", "L", " ", "W", "H">>],
    [keys |-> {<<"a", "a", "a">>},
     name |-> <<"A", "A", "A", " ", "S", "t", "o", "r", "a", "g", "e">>] >>

canonical_rules == <<
    [keys |-> {<<"i", "n", "d", "o", "o", "r">>, <<"m", "4", "4">>},
     name |-> <<"D", "S", "V", " ", "I", "n", "d", "o", "o", "r">>],
    [keys |-> {<<"m", "a", "r", "k", "a", "z">>, <<"m", "1">>},
     name |-> <<"D", "S", "V", " ", "A", "l", " ", "M", "a", "r", "k", "a", "z">>],
    [keys |-> {<<"o", "u", "t", "d", "o", "o", "r">>},
     name |-> <<"D", "S", "V", " ", "O", "u", "t", "d", "o", "o", "r">>],
    [keys |-> {<<"m", "o", "s", "b">>},
     name |-> <<"M", "O", "S", "B">>],
    [keys |-> {<<"m", "z", "p">>},
     name |-> <<"D", "S", "V", " ", "M", "Z", "P">>],
    [keys |-> {<<"d", "h", "l">>},
     name |-> <<"D", "H", "L", " ", "W", "H">>],
    [keys |-> {<<"a", "a", "a">>},
     name |-> <<"A", "A", "A", " ", "S", "t", "o", "r", "a", "g", "e">>] >>

\* a variant that tests the keywords against the label as spelled
RECURSIVE FirstRuleAsSpelled(_, _, _)
FirstRuleAsSpelled(raw_name, name_lower, i) ==
    IF i > Len(canonical_rules) THEN raw_name
    ELSE IF \E k \in canonical_rules[i].keys : Contains(raw_name, k)
         THEN canonical_rules[i].name
         ELSE FirstRuleAsSpelled(raw_name, name_lower, i + 1)

RECURSIVE FirstRule(_, _, _)
FirstRule(raw_name, name_lower, i) ==
    IF i > Len(canonical_rules) THEN raw_name
    ELSE IF \E k \in canonical_rules[i].keys : Contains(name_lower, k)
         THEN canonical_rules[i].name
         ELSE FirstRule(raw_name, name_lower, i + 1)

\* a variant that returns the lower-cased label when no rule applies
NormalizeToLower(raw_name) == FirstRule(lower(raw_name), lower(raw_name), 1)

normalize_warehouse_name(raw_name) == FirstRule(raw_name, lower(raw_name), 1)

warehouse_keywords == {<<"d", "s", "v">>, <<"i", "n", "d", "o", "o", "r">>,
    <<"o", "u", "t", "d", "o", "o", "r">>, <<"m", "a", "r", "k", "a", "z">>,
    <<"m", "o", "s", "b">>, <<"m", "z", "p">>, <<"h", "a", "u", "l", "e", "r">>,
    <<"d", "h", "l">>, <<"a", "a", "a">>}

site_keywords == {<<"d", "a", "s">>, <<"m", "i", "r">>, <<"s", "h", "u">>, <<"a", "g", "i">>}

IsWarehouseCol(col) == \E wh \in warehouse_keywords : Contains(lower(col), wh)

IsSiteCol(col) ==
    /\ ~IsWarehouseCol(col)
    /\ \E site \in site_keywords : Contains(lower(col), site)

\* indices of the columns, in declaration order
ColumnsWhere(columns, Test(_)) ==
    SelectSeq([i \in 1..Len(columns) |-> i], LAMBDA i : Test(columns[i]))

warehouse_cols(columns) == ColumnsWhere(columns, IsWarehouseCol)

site_cols(columns) == ColumnsWhere(columns, IsSiteCol)

case_patterns == << <<"c", "a", "s", "e">>, <<"c", "a", "s", "e", " ", "n", "o">>,
    <<"m", "r", "#">>, <<"s", "c", "t", " ", "s", "h", "i", "p", " ", "n", "o">> >>

qty_patterns == << <<"q", "t", "y">>, <<"q", "u", "a", "n", "t", "i", "t", "y">>,
    <<"q", "'", "t", "y">> >>

length_patterns == << <<"l", "(", "c", "m", ")">>, <<"l", "(", "m", ")">>,
    <<"l", "e", "n", "g", "t", "h">> >>

width_patterns == << <<"w", "(", "c", "m", ")">>, <<"w", "(", "m", ")">>,
    <<"w", "i", "d", "t", "h">> >>

-----------------------------------------------------------------------------
(* The frame handed over by the reader: df.columns and one function per row,  *)
(* from the column's position to the cell.  A cell is what pd.notna,          *)
(* pd.to_datetime(errors='coerce') and pd.to_numeric(errors='coerce') make of *)
(* it.                                                                        *)

EmptyCell == [na |-> TRUE, t |-> NaT, n |-> NaN]

DateCell(date) == [na |-> FALSE, t |-> date, n |-> NaN]

NumCell(k) == [na |-> FALSE, t |-> NaT, n |-> Num(k)]

\* a cell holding text that is neither a date nor a number
TextCell(text) == [na |-> FALSE, t |-> NaT, n |-> NaN, s |-> text]

\* the canonical names of the columns from position i on
RECURSIVE NamesFrom(_, _)
NamesFrom(columns, i) ==
    IF i > Len(columns) THEN <<>>
    ELSE <<normalize_warehouse_name(columns[i])>> \o NamesFrom(columns, i + 1)

\* the positions in the frame of those columns of the list cols that it has
RECURSIVE PositionsOf(_, _)
PositionsOf(columns, cols) ==
    IF cols = <<>> THEN <<>>
    ELSE (IF \E i \in 1..Len(columns) : columns[i] = Head(cols)
          THEN <<IndexIn(columns, Head(cols))>> ELSE <<>>)
         \o PositionsOf(columns, Tail(cols))

\* what the engine reads off df.columns before it walks the rows: the columns
\* found by find_column (position, 0 for None), the warehouse and site columns
\* (lines 79-95), and the canonical name of each column
ReadColumns(columns) ==
    LET At(col) == IF col = None THEN 0 ELSE IndexIn(columns, col)
        length_col == find_column(columns, length_patterns)
        width_col == find_column(columns, width_patterns)
    IN  [case_col |-> At(find_column(columns, case_patterns)),
         qty_col |-> At(find_column(columns, qty_patterns)),
         length_col |-> At(length_col),
         width_col |-> At(width_col),
         length_in_cm |-> Contains(lower(length_col), <<"(", "c", "m", ")">>),
         width_in_cm |-> Contains(lower(width_col), <<"(", "c", "m", ")">>),
         warehouse_cols |-> warehouse_cols(columns),
         site_cols |-> site_cols(columns),
         location |-> NamesFrom(columns, 1)]

-----------------------------------------------------------------------------
(* The frames of the model *)

\* df.columns: a case column, a quantity column, two warehouses and two sites
Layout == <<
    <<"C", "a", "s", "e", " ", "N", "o", ".">>,
    <<"Q", "t", "y">>,
    <<"D", "S", "V", " ", "I", "n", "d", "o", "o", "r">>,
    <<"D", "A", "S">>,
    <<"D", "S", "V", " ", "O", "u", "t", "d", "o", "o", "r">>,
    <<"M", "I", "R">> >>

\* the columns of the layout, read once
LayoutColumns == ReadColumns(Layout)

ColumnsOf(columns) == IF columns = Layout THEN LayoutColumns ELSE ReadColumns(columns)

-----------------------------------------------------------------------------
(* HVDCStockEngine.calculate_sqm, in units of 1 cm * 1 cm per hundredth of a unit *)

\* pd.to_numeric(row.get(col, 0), errors='coerce') or 0 : NaN is truthy and stays
NumericOr0(cell) == IF cell.n.nan THEN NaN ELSE cell.n

\* the value in metres times 100
InCm(in_cm, x) == IF in_cm THEN x ELSE x * 100

calculate_sqm(columns, row, qty) ==
    LET cols == ColumnsOf(columns)
    IN  IF cols.length_col = 0 \/ cols.width_col = 0 THEN Num(0)
        ELSE LET length == NumericOr0(row[cols.length_col])
                 width == NumericOr0(row[cols.width_col])
             IN  IF length.nan \/ width.nan THEN NaN
                 ELSE Num(InCm(cols.length_in_cm, length.v)
                          * InCm(cols.width_in_cm, width.v) * qty)

-----------------------------------------------------------------------------
(* HVDCStockEngine.extract_warehouse_movements *)

\* lines 102-104
QtyOfRow(columns, row) ==
    LET qty_col == ColumnsOf(columns).qty_col
        qty == IF qty_col # 0 THEN row[qty_col].n ELSE Num(Whole(1))
    IN  IF qty.nan \/ qty.v <= 0 THEN Whole(1) ELSE qty.v

\* line 101
CaseNoOfRow(columns, row, idx) ==
    LET case_col == ColumnsOf(columns).case_col
    IN  IF ~row[case_col].na
        THEN <<"case", row[case_col].n.v>>
        ELSE <<"CASE_", idx>>

\* the events of the columns cols (positions), in that order: lines 112-133
RECURSIVE CollectEvents(_, _, _, _)
CollectEvents(columns, row, cols, type) ==
    IF cols = <<>> THEN <<>>
    ELSE LET col == columns[Head(cols)]
             cell == row[Head(cols)]
             rest == CollectEvents(columns, row, Tail(cols), type)
         IN  IF ~cell.na /\ cell.t # NaT
             THEN << [date |-> cell.t,
                      location |-> IF type = "warehouse"
                                   THEN ColumnsOf(columns).location[Head(cols)] ELSE col,
                      type |-> type,
                      original_col |-> col] >> \o rest
             ELSE rest

\* Variant: a sort that puts an event ahead of the events of its own date.
\* C10_DeliverySource is tested against it.
RECURSIVE InsertAheadOfTies(_, _)
InsertAheadOfTies(sorted, e) ==
    IF sorted = <<>> THEN <<e>>
    ELSE IF ~DateLess(Head(sorted).date, e.date) THEN <<e>> \o sorted
    ELSE <<Head(sorted)>> \o InsertAheadOfTies(Tail(sorted), e)

\* list.sort(key=date) is stable: an event goes behind the events that are not later
RECURSIVE InsertByDate(_, _)
InsertByDate(sorted, e) ==
    IF sorted = <<>> THEN <<e>>
    ELSE IF DateLess(e.date, Head(sorted).date) THEN <<e>> \o sorted
    ELSE <<Head(sorted)>> \o InsertByDate(Tail(sorted), e)

RECURSIVE SortByDate(_)
SortByDate(events) ==
    IF events = <<>> THEN <<>>
    ELSE InsertByDate(SortByDate(SubSeq(events, 1, Len(events) - 1)),
                      events[Len(events)])

\* a variant that collects the site events ahead of the warehouse events
EventsSitesFirst(columns, row) ==
    SortByDate(CollectEvents(columns, row, ColumnsOf(columns).site_cols, "site")
               \o CollectEvents(columns, row, ColumnsOf(columns).warehouse_cols, "warehouse"))

\* lines 109-136
EventsOfRow(columns, row) ==
    SortByDate(CollectEvents(columns, row, ColumnsOf(columns).warehouse_cols, "warehouse")
               \o CollectEvents(columns, row, ColumnsOf(columns).site_cols, "site"))

Movement(case_no, col, tag, date, loc_from, loc_to, site, qty, sqm, tx_type, source_file) ==
    [TxID |-> <<case_no, col, tag, date>>,
     Case_No |-> case_no,
     Date |-> date,
     Loc_From |-> loc_from,
     Loc_To |-> loc_to,
     Site |-> site,
     Qty |-> qty,
     SQM |-> sqm,
     Cost |-> 0,
     TxType |-> tx_type,
     SOURCE_FILE |-> source_file,
     YearMonth |-> NoYearMonth]

\* a variant that looks no further back than the event just before
PrecedingIfWarehouse(events, i) ==
    IF i <= 1 THEN None
    ELSE IF events[i - 1].type = "warehouse" THEN events[i - 1].location
    ELSE None

\* lines 190-194: the nearest warehouse event before position i, or None
RECURSIVE LastWarehouseBefore(_, _)
LastWarehouseBefore(events, i) ==
    IF i <= 1 THEN None
    ELSE IF events[i - 1].type = "warehouse" THEN events[i - 1].location
    ELSE LastWarehouseBefore(events, i - 1)

\* line 200:  last_warehouse or 'UNKNOWN'
DeliverySource(events, i) ==
    IF LastWarehouseBefore(events, i) # None
    THEN LastWarehouseBefore(events, i)
    ELSE UNKNOWN

\* a variant that names the last warehouse visited, however far back
InboundFromLastWarehouse(events, i) == LastWarehouseBefore(events, i)

\* lines 141-172: the source of the credit of the warehouse event at position i
InboundSource(events, i) ==
    IF i = 1 THEN None
    ELSE IF events[i - 1].type = "warehouse" THEN events[i - 1].location
    ELSE None

\* a variant that dates the debit of a transfer at the arrival
MovementsDatedAtArrival(events, i, case_no, qty, sqm, source_file) ==
    LET event == events[i]
    IN  IF event.type = "warehouse"
        THEN (IF i > 1 /\ events[i - 1].type = "warehouse"
              THEN << Movement(case_no, events[i - 1].original_col, "OUT",
                               event.date, events[i - 1].location, None,
                               UNK, qty, sqm, "OUT", source_file) >>
              ELSE <<>>)
             \o << Movement(case_no, event.original_col, "IN", event.date,
                            InboundSource(events, i), event.location,
                            UNK, qty, sqm, "IN", source_file) >>
        ELSE << Movement(case_no, event.original_col, "DELIVERY", event.date,
                         DeliverySource(events, i), None,
                         event.location, qty, sqm, "OUT", source_file) >>

\* a variant that credits a warehouse only on arrival from another warehouse
MovementsCreditedOnTransfer(events, i, case_no, qty, sqm, source_file) ==
    LET event == events[i]
    IN  IF event.type = "warehouse"
        THEN IF i > 1 /\ events[i - 1].type = "warehouse"
             THEN << Movement(case_no, events[i - 1].original_col, "OUT",
                              events[i - 1].date, events[i - 1].location, None,
                              UNK, qty, sqm, "OUT", source_file),
                     Movement(case_no, event.original_col, "IN", event.date,
                              InboundSource(events, i), event.location,
                              UNK, qty, sqm, "IN", source_file) >>
             ELSE <<>>
        ELSE << Movement(case_no, event.original_col, "DELIVERY", event.date,
                         DeliverySource(events, i), None,
                         event.location, qty, sqm, "OUT", source_file) >>

\* lines 139-208: the movements of the event at position i
MovementsOfEvent(events, i, case_no, qty, sqm, source_file) ==
    LET event == events[i]
    IN  IF event.type = "warehouse"
        THEN (IF i > 1 /\ events[i - 1].type = "warehouse"
              THEN << Movement(case_no, events[i - 1].original_col, "OUT",
                               events[i - 1].date, events[i - 1].location, None,
                               UNK, qty, sqm, "OUT", source_file) >>
              ELSE <<>>)
             \o << Movement(case_no, event.original_col, "IN", event.date,
                            InboundSource(events, i), event.location,
                            UNK, qty, sqm, "IN", source_file) >>
        ELSE << Movement(case_no, event.original_col, "DELIVERY", event.date,
                         DeliverySource(events, i), None,
                         event.location, qty, sqm, "OUT", source_file) >>

RECURSIVE MovementsFrom(_, _, _, _, _, _)
MovementsFrom(events, i, case_no, qty, sqm, source_file) ==
    IF i > Len(events) THEN <<>>
    ELSE MovementsOfEvent(events, i, case_no, qty, sqm, source_file)
         \o MovementsFrom(events, i + 1, case_no, qty, sqm, source_file)

\* Variant: a record with fewer than two visits gives no movement.
\* C5_OneVisit is tested against it.
MovementsWithHistory(columns, row, idx, source_file) ==
    LET qty == QtyOfRow(columns, row)
        events == EventsOfRow(columns, row)
    IN  IF Len(events) < 2 THEN <<>>
        ELSE MovementsFrom(events, 1, CaseNoOfRow(columns, row, idx), qty,
                           calculate_sqm(columns, row, qty), source_file)

MovementsOfRow(columns, row, idx, source_file) ==
    LET qty == QtyOfRow(columns, row)
    IN  MovementsFrom(EventsOfRow(columns, row), 1,
                      CaseNoOfRow(columns, row, idx), qty,
                      calculate_sqm(columns, row, qty), source_file)

RECURSIVE MovementsOfRows(_, _, _, _)
MovementsOfRows(columns, rows, idx, source_file) ==
    IF idx > Len(rows) THEN <<>>
    ELSE MovementsOfRow(columns, rows[idx], idx, source_file)
         \o MovementsOfRows(columns, rows, idx + 1, source_file)

\* lines 71-210; an empty frame or a frame without a case column gives no movement
extract_warehouse_movements(frame, source_file) ==
    IF frame.rows = <<>> THEN <<>>
    ELSE IF ColumnsOf(frame.columns).case_col = 0 THEN <<>>
    ELSE MovementsOfRows(frame.columns, frame.rows, 1, source_file)

-----------------------------------------------------------------------------
(* Helpers for the pandas tables *)

\* sorted(S) of year-months, of names, of dates
RECURSIVE SortMonths(_)
SortMonths(S) ==
    IF S = {} THEN <<>>
    ELSE LET least == CHOOSE x \in S : \A y \in S \ {x} : MonthLess(x, y)
         IN  <<least>> \o SortMonths(S \ {least})

RECURSIVE SortNames(_)
SortNames(S) ==
    IF S = {} THEN <<>>
    ELSE LET least == CHOOSE x \in S : \A y \in S \ {x} : StrLess(x, y)
         IN  <<least>> \o SortNames(S \ {least})

RECURSIVE SortDates(_)
SortDates(S) ==
    IF S = {} THEN <<>>
    ELSE LET least == CHOOSE x \in S : \A y \in S \ {x} : DateLess(x, y)
         IN  <<least>> \o SortDates(S \ {least})

Range(seq) == {seq[i] : i \in 1..Len(seq)}

\* Series.unique(): the values in order of first appearance
RECURSIVE Unique(_)
Unique(seq) ==
    IF seq = <<>> THEN <<>>
    ELSE LET front == Unique(SubSeq(seq, 1, Len(seq) - 1))
             last == seq[Len(seq)]
         IN  IF last \in Range(front) THEN front ELSE Append(front, last)

RECURSIVE SumSeq(_)
SumSeq(values) ==
    IF values = <<>> THEN 0 ELSE Head(values) + SumSeq(Tail(values))

\* Series.sum() of the column Value over the rows that pass Keep
SumWhere(rows, Keep(_), Value(_)) ==
    LET kept == SelectSeq(rows, Keep)
    IN  SumSeq([i \in 1..Len(kept) |-> Value(kept[i])])

\* sum() skips NaN
SqmValue(sqm) == IF sqm.nan THEN 0 ELSE sqm.v

-----------------------------------------------------------------------------
(* HVDCStockEngine.calculate_monthly_warehouse_stock *)

\* Variant: a period already in the frame is advanced by a month instead of
\* being computed from Date again.  C4_Idempotent is tested against it.
WithYearMonthAdvanced(stream) ==
    [i \in 1..Len(stream) |->
        [stream[i] EXCEPT !.YearMonth =
            IF stream[i].YearMonth = NoYearMonth THEN YearMonthOf(stream[i].Date)
            ELSE IF stream[i].YearMonth[2] = 12 THEN <<stream[i].YearMonth[1] + 1, 1>>
            ELSE <<stream[i].YearMonth[1], stream[i].YearMonth[2] + 1>>]]

\* line 367: the column YearMonth is written into the caller's frame
WithYearMonth(stream) ==
    [i \in 1..Len(stream) |->
        [stream[i] EXCEPT !.YearMonth = YearMonthOf(stream[i].Date)]]

\* lines 371-387: the credit or the debit a movement books, if any
RECURSIVE monthly_agg(_)
monthly_agg(stream) ==
    IF stream = <<>> THEN <<>>
    ELSE LET row == Head(stream)
         IN  (IF row.TxType = "IN" /\ row.Loc_To # None
              THEN << [YearMonth |-> row.YearMonth, Location |-> row.Loc_To,
                       TxType |-> "IN", Qty |-> row.Qty, SQM |-> row.SQM] >>
              ELSE IF row.TxType = "OUT" /\ row.Loc_From # None
              THEN << [YearMonth |-> row.YearMonth, Location |-> row.Loc_From,
                       TxType |-> "OUT", Qty |-> row.Qty, SQM |-> row.SQM] >>
              ELSE <<>>)
             \o monthly_agg(Tail(stream))

\* a variant that sums the month over every location
GroupQtyOfAll(entries, location, month, tx_type) ==
    SumWhere(entries,
             LAMBDA e : e.YearMonth = month /\ e.TxType = tx_type,
             LAMBDA e : e.Qty)

\* lines 393-431: groupby(Location, YearMonth, TxType).sum() read back for one cell
GroupQty(entries, location, month, tx_type) ==
    SumWhere(entries,
             LAMBDA e : e.Location = location /\ e.YearMonth = month /\ e.TxType = tx_type,
             LAMBDA e : e.Qty)

GroupSqm(entries, location, month, tx_type) ==
    SumWhere(entries,
             LAMBDA e : e.Location = location /\ e.YearMonth = month /\ e.TxType = tx_type,
             LAMBDA e : SqmValue(e.SQM))

\* a variant that takes the months of the entries of known locations only
MonthsOfKnown(entries) ==
    SortMonths({e.YearMonth : e \in {x \in Range(entries) : x.Location # UNKNOWN}})

\* line 403
all_months(entries) == SortMonths({e.YearMonth : e \in Range(entries)})

\* a variant that keeps 'UNKNOWN' among the locations
AllLocationsKept(entries) == SortNames({e.Location : e \in Range(entries)})

\* line 404
all_locations(entries) ==
    SortNames({e.Location : e \in Range(entries)} \ {UNKNOWN})

\* Variant: a location starts with one unit on hand.
\* C3_NetFlowIsFinalClosing is tested against it.
OpeningOfOne(location) == Whole(1)

\* line 410
InitialOpeningStock(location) == 0

\* Variant: the debit of the month is left out of the closing.
\* C2_ClosingArithmetic is tested against it.
StockRowWithoutDebit(entries, location, month, opening_stock) ==
    LET month_inbound == GroupQty(entries, location, month, "IN")
        month_outbound == GroupQty(entries, location, month, "OUT")
    IN  [Location |-> location,
         YearMonth |-> month,
         Opening_Stock |-> opening_stock,
         Inbound_Qty |-> month_inbound,
         Outbound_Qty |-> month_outbound,
         Closing_Stock |-> opening_stock + month_inbound,
         Inbound_SQM |-> GroupSqm(entries, location, month, "IN"),
         Outbound_SQM |-> GroupSqm(entries, location, month, "OUT")]

StockRow(entries, location, month, opening_stock) ==
    LET month_inbound == GroupQty(entries, location, month, "IN")
        month_outbound == GroupQty(entries, location, month, "OUT")
    IN  [Location |-> location,
         YearMonth |-> month,
         Opening_Stock |-> opening_stock,
         Inbound_Qty |-> month_inbound,
         Outbound_Qty |-> month_outbound,
         Closing_Stock |-> opening_stock + month_inbound - month_outbound,
         Inbound_SQM |-> GroupSqm(entries, location, month, "IN"),
         Outbound_SQM |-> GroupSqm(entries, location, month, "OUT")]

\* Variant: every month opens with the first month's opening.
\* C1_ClosingIsNextOpening is tested against it.
RECURSIVE LocationRowsReopened(_, _, _, _)
LocationRowsReopened(entries, location, months, opening_stock) ==
    IF months = <<>> THEN <<>>
    ELSE <<StockRow(entries, location, Head(months), opening_stock)>>
         \o LocationRowsReopened(entries, location, Tail(months), opening_stock)

\* lines 412-446: the walk over the months of one location
RECURSIVE LocationRows(_, _, _, _)
LocationRows(entries, location, months, opening_stock) ==
    IF months = <<>> THEN <<>>
    ELSE LET row == StockRow(entries, location, Head(months), opening_stock)
         IN  <<row>> \o LocationRows(entries, location, Tail(months), row.Closing_Stock)

\* Variant: only the months in which a location moved get a row.
\* C6_WorkedLedger is tested against it.
RECURSIVE ActiveStockRows(_, _, _)
ActiveStockRows(entries, locations, months) ==
    IF locations = <<>> THEN <<>>
    ELSE SelectSeq(LocationRows(entries, Head(locations), months,
                                InitialOpeningStock(Head(locations))),
                   LAMBDA r : r.Inbound_Qty # 0 \/ r.Outbound_Qty # 0)
         \o ActiveStockRows(entries, Tail(locations), months)

\* lines 409-446
RECURSIVE StockRows(_, _, _)
StockRows(entries, locations, months) ==
    IF locations = <<>> THEN <<>>
    ELSE LocationRows(entries, Head(locations), months,
                      InitialOpeningStock(Head(locations)))
         \o StockRows(entries, Tail(locations), months)

\* DataFrame.pivot_table(index='Location', columns='YearMonth', values=field,
\* fill_value=0): the mean of the field over the rows of a cell
PivotTable(table, Field(_)) ==
    LET locs == {r.Location : r \in Range(table)}
        months == {r.YearMonth : r \in Range(table)}
        Cell(l, m) == {i \in 1..Len(table) : table[i].Location = l /\ table[i].YearMonth = m}
    IN  [l \in locs |-> [m \in months |->
            IF Cell(l, m) = {} THEN 0
            ELSE SumWhere(table, LAMBDA r : r.Location = l /\ r.YearMonth = m, Field)
                 \div Cardinality(Cell(l, m))]]

NoResults == [status |-> "empty", monthly_stock_detail |-> <<>>]

\* lines 361-470, on a stream that already carries YearMonth
MonthlyTables(stream) ==
    LET entries == monthly_agg(stream)
        stock_df == StockRows(entries, all_locations(entries), all_months(entries))
    IN  IF stream = <<>> \/ entries = <<>> THEN NoResults
        ELSE IF stock_df = <<>>
        THEN [status |-> "ok", monthly_stock_detail |-> stock_df]
        ELSE [status |-> "ok",
              monthly_stock_detail |-> stock_df,
              inbound_pivot |-> PivotTable(stock_df, LAMBDA r : r.Inbound_Qty),
              outbound_pivot |-> PivotTable(stock_df, LAMBDA r : r.Outbound_Qty),
              closing_stock_pivot |-> PivotTable(stock_df, LAMBDA r : r.Closing_Stock)]

calculate_monthly_warehouse_stock(stream) == MonthlyTables(WithYearMonth(stream))

-----------------------------------------------------------------------------
(* HVDCStockEngine.calculate_daily_stock *)

\* lines 298-316
RECURSIVE daily_agg(_)
daily_agg(stream) ==
    IF stream = <<>> THEN <<>>
    ELSE LET row == Head(stream)
         IN  (IF row.TxType = "IN" /\ row.Loc_To # None
              THEN << [Date |-> row.Date, Location |-> row.Loc_To,
                       Inbound |-> row.Qty, Outbound |-> 0,
                       SQM_In |-> SqmValue(row.SQM), SQM_Out |-> 0] >>
              ELSE IF row.TxType = "OUT" /\ row.Loc_From # None
              THEN << [Date |-> row.Date, Location |-> row.Loc_From,
                       Inbound |-> 0, Outbound |-> row.Qty,
                       SQM_In |-> 0, SQM_Out |-> SqmValue(row.SQM)] >>
              ELSE <<>>)
             \o daily_agg(Tail(stream))

DaySum(entries, location, date, Value(_)) ==
    SumWhere(entries, LAMBDA e : e.Location = location /\ e.Date = date, Value)

\* a variant that opens every day at zero
RECURSIVE DayRowsReopened(_, _, _, _)
DayRowsReopened(entries, location, dates, opening_stock) ==
    IF dates = <<>> THEN <<>>
    ELSE LET inbound == DaySum(entries, location, Head(dates), LAMBDA e : e.Inbound)
             outbound == DaySum(entries, location, Head(dates), LAMBDA e : e.Outbound)
             closing_stock == opening_stock + inbound - outbound
         IN  << [Location |-> location,
                 Date |-> Head(dates),
                 Opening_Stock |-> opening_stock,
                 Inbound |-> inbound,
                 Outbound |-> outbound,
                 Closing_Stock |-> closing_stock,
                 SQM_In |-> DaySum(entries, location, Head(dates), LAMBDA e : e.SQM_In),
                 SQM_Out |-> DaySum(entries, location, Head(dates), LAMBDA e : e.SQM_Out)] >>
             \o DayRowsReopened(entries, location, Tail(dates), 0)

\* lines 338-357: the walk over the days of one location
RECURSIVE DayRows(_, _, _, _)
DayRows(entries, location, dates, opening_stock) ==
    IF dates = <<>> THEN <<>>
    ELSE LET inbound == DaySum(entries, location, Head(dates), LAMBDA e : e.Inbound)
             outbound == DaySum(entries, location, Head(dates), LAMBDA e : e.Outbound)
             closing_stock == opening_stock + inbound - outbound
         IN  << [Location |-> location,
                 Date |-> Head(dates),
                 Opening_Stock |-> opening_stock,
                 Inbound |-> inbound,
                 Outbound |-> outbound,
                 Closing_Stock |-> closing_stock,
                 SQM_In |-> DaySum(entries, location, Head(dates), LAMBDA e : e.SQM_In),
                 SQM_Out |-> DaySum(entries, location, Head(dates), LAMBDA e : e.SQM_Out)] >>
             \o DayRows(entries, location, Tail(dates), closing_stock)

\* lines 334-357
RECURSIVE DailyRows(_, _)
DailyRows(entries, locations) ==
    IF locations = <<>> THEN <<>>
    ELSE (IF Head(locations) = UNKNOWN THEN <<>>
          ELSE DayRows(entries, Head(locations),
                       SortDates({e.Date : e \in {x \in Range(entries) :
                                                    x.Location = Head(locations)}}),
                       0))
         \o DailyRows(entries, Tail(locations))

\* lines 289-359; groupby leaves the locations sorted
calculate_daily_stock(stream) ==
    LET entries == daily_agg(stream)
    IN  DailyRows(entries, SortNames({e.Location : e \in Range(entries)}))

-----------------------------------------------------------------------------
(* The validators *)

Abs(x) == IF x < 0 THEN -x ELSE x

\* the tolerance 0.01, in hundredths
ToleranceHundredths == 1

\* abs(a - b) > 0.01
Differs(a, b) == Abs(a - b) > ToleranceHundredths

\* DataFrame.sort_values('YearMonth') of the rows of one location
RECURSIVE InsertByMonth(_, _)
InsertByMonth(sorted, r) ==
    IF sorted = <<>> THEN <<r>>
    ELSE IF MonthLess(r.YearMonth, Head(sorted).YearMonth) THEN <<r>> \o sorted
    ELSE <<Head(sorted)>> \o InsertByMonth(Tail(sorted), r)

RECURSIVE SortByMonth(_)
SortByMonth(rows) ==
    IF rows = <<>> THEN <<>>
    ELSE InsertByMonth(SortByMonth(SubSeq(rows, 1, Len(rows) - 1)), rows[Len(rows)])

RowsOf(stock_df, location) == SelectSeq(stock_df, LAMBDA r : r.Location = location)

LocationsOf(stock_df) == Unique([i \in 1..Len(stock_df) |-> stock_df[i].Location])

\* hvdc 520-525, corrected 180-184: one error per row whose closing is off
RECURSIVE MismatchErrors(_)
MismatchErrors(stock_df) ==
    IF stock_df = <<>> THEN <<>>
    ELSE LET row == Head(stock_df)
             expected == row.Opening_Stock + row.Inbound_Qty - row.Outbound_Qty
         IN  (IF Differs(row.Closing_Stock, expected)
              THEN << [kind |-> "mismatch", Location |-> row.Location,
                       YearMonth |-> row.YearMonth] >>
              ELSE <<>>)
             \o MismatchErrors(Tail(stock_df))

\* hvdc 531-536, corrected 190-197: one error per break between neighbours
RECURSIVE BreaksFrom(_, _, _)
BreaksFrom(loc_data, i, location) ==
    IF i > Len(loc_data) THEN <<>>
    ELSE (IF Differs(loc_data[i - 1].Closing_Stock, loc_data[i].Opening_Stock)
          THEN << [kind |-> "continuity", Location |-> location,
                   YearMonth |-> loc_data[i].YearMonth] >>
          ELSE <<>>)
         \o BreaksFrom(loc_data, i + 1, location)

RECURSIVE ContinuityErrors(_, _)
ContinuityErrors(stock_df, locations) ==
    IF locations = <<>> THEN <<>>
    ELSE BreaksFrom(SortByMonth(RowsOf(stock_df, Head(locations))), 2, Head(locations))
         \o ContinuityErrors(stock_df, Tail(locations))

\* Variant: negative closings are not reported.
\* C8_NegativeIsWarning is tested against it.
NoNegativeWarnings(stock_df) == <<>>

\* hvdc 539-541, corrected 200-202
NegativeWarnings(stock_df) ==
    LET negative == SelectSeq(stock_df, LAMBDA r : r.Closing_Stock < 0)
    IN  IF negative # <<>>
        THEN << [kind |-> "negative", count |-> Len(negative)] >>
        ELSE <<>>

\* hvdc 509-551.  A ledger without rows is a frame without columns, and
\* stock_df['Location'] raises KeyError.  validation_timestamp is left out.
validate_calculations(results, daily_results) ==
    IF results.status = "empty"
    THEN [status |-> "ok", validation_passed |-> TRUE, errors |-> <<>>,
          warnings |-> <<>>, total_monthly_records |-> 0,
          total_daily_records |-> Len(daily_results), locations_checked |-> 0]
    ELSE LET stock_df == results.monthly_stock_detail
             errors == MismatchErrors(stock_df)
                       \o ContinuityErrors(stock_df, LocationsOf(stock_df))
         IN  IF stock_df = <<>> THEN [status |-> "KeyError"]
             ELSE [status |-> "ok",
                   validation_passed |-> (Len(errors) = 0),
                   errors |-> errors,
                   warnings |-> NegativeWarnings(stock_df),
                   total_monthly_records |-> Len(stock_df),
                   total_daily_records |-> Len(daily_results),
                   locations_checked |-> Len(LocationsOf(stock_df))]

\* corrected 205-216
RECURSIVE BalanceErrors(_, _)
BalanceErrors(stock_df, locations) ==
    IF locations = <<>> THEN <<>>
    ELSE LET loc_data == RowsOf(stock_df, Head(locations))
             total_inbound == SumSeq([i \in 1..Len(loc_data) |-> loc_data[i].Inbound_Qty])
             total_outbound == SumSeq([i \in 1..Len(loc_data) |-> loc_data[i].Outbound_Qty])
             final_stock == loc_data[Len(loc_data)].Closing_Stock
         IN  (IF Differs(final_stock, total_inbound - total_outbound)
              THEN << [kind |-> "balance", Location |-> Head(locations),
                       YearMonth |-> loc_data[Len(loc_data)].YearMonth] >>
              ELSE <<>>)
             \o BalanceErrors(stock_df, Tail(locations))

\* corrected 168-225
validate_stock_logic(results) ==
    IF results.status = "empty"
    THEN [status |-> "ok", validation_passed |-> FALSE,
          errors |-> << [kind |-> "No stock detail data", Location |-> None,
                         YearMonth |-> NoYearMonth] >>]
    ELSE LET stock_df == results.monthly_stock_detail
             errors == MismatchErrors(stock_df)
                       \o ContinuityErrors(stock_df, LocationsOf(stock_df))
                       \o BalanceErrors(stock_df, LocationsOf(stock_df))
         IN  IF stock_df = <<>> THEN [status |-> "KeyError"]
             ELSE [status |-> "ok",
                   validation_passed |-> (Len(errors) = 0),
                   errors |-> errors,
                   warnings |-> NegativeWarnings(stock_df),
                   total_records_checked |-> Len(stock_df),
                   locations_checked |-> Cardinality({r.Location : r \in Range(stock_df)}),
                   months_checked |-> Cardinality({r.YearMonth : r \in Range(stock_df)})]

-----------------------------------------------------------------------------
(* CorrectedStockEngine.create_proper_monthly_warehouse_analysis *)

\* a variant that debits a location for its deliveries only
RECURSIVE TransactionsOfDeliveries(_)
TransactionsOfDeliveries(stream) ==
    IF stream = <<>> THEN <<>>
    ELSE LET row == Head(stream)
         IN  (IF row.Loc_To # None
              THEN << [Case_No |-> row.Case_No, Date |-> row.Date,
                       YearMonth |-> YearMonthOf(row.Date), Location |-> row.Loc_To,
                       TxType |-> "IN", Qty |-> row.Qty, SQM |-> row.SQM] >>
              ELSE <<>>)
             \o (IF row.Site # None /\ row.Site # UNK /\ row.TxType = "OUT"
                 THEN << [Case_No |-> row.Case_No, Date |-> row.Date,
                          YearMonth |-> YearMonthOf(row.Date), Location |-> row.Loc_From,
                          TxType |-> "OUT", Qty |-> row.Qty, SQM |-> row.SQM] >>
                 ELSE <<>>)
             \o TransactionsOfDeliveries(Tail(stream))

\* lines 24-53: a credit for every row with Loc_To, a debit for every OUT row
RECURSIVE transactions(_)
transactions(stream) ==
    IF stream = <<>> THEN <<>>
    ELSE LET row == Head(stream)
         IN  (IF row.Loc_To # None
              THEN << [Case_No |-> row.Case_No, Date |-> row.Date,
                       YearMonth |-> YearMonthOf(row.Date), Location |-> row.Loc_To,
                       TxType |-> "IN", Qty |-> row.Qty, SQM |-> row.SQM] >>
              ELSE <<>>)
             \o (IF row.Site # None /\ row.TxType = "OUT"
                 THEN << [Case_No |-> row.Case_No, Date |-> row.Date,
                          YearMonth |-> YearMonthOf(row.Date), Location |-> row.Loc_From,
                          TxType |-> "OUT", Qty |-> row.Qty, SQM |-> row.SQM] >>
                 ELSE <<>>)
             \o transactions(Tail(stream))

\* lines 82-126
RECURSIVE ProperLocationRows(_, _, _, _)
ProperLocationRows(tx_df, location, months, opening_stock) ==
    IF months = <<>> THEN <<>>
    ELSE LET month_inbound == GroupQty(tx_df, location, Head(months), "IN")
             month_outbound == GroupQty(tx_df, location, Head(months), "OUT")
             closing_stock == opening_stock + month_inbound - month_outbound
         IN  << [Location |-> location,
                 YearMonth |-> Head(months),
                 Opening_Stock |-> opening_stock,
                 Inbound_Qty |-> month_inbound,
                 Outbound_Qty |-> month_outbound,
                 Closing_Stock |-> closing_stock,
                 Inbound_SQM |-> GroupSqm(tx_df, location, Head(months), "IN"),
                 Outbound_SQM |-> GroupSqm(tx_df, location, Head(months), "OUT"),
                 Net_Movement |-> month_inbound - month_outbound] >>
             \o ProperLocationRows(tx_df, location, Tail(months), closing_stock)

\* lines 78-128
RECURSIVE ProperStockRows(_, _, _)
ProperStockRows(tx_df, locations, months) ==
    IF locations = <<>> THEN <<>>
    ELSE (IF Head(locations) = UNKNOWN THEN <<>>
          ELSE ProperLocationRows(tx_df, Head(locations), months, 0))
         \o ProperStockRows(tx_df, Tail(locations), months)

\* lines 155-156: cumsum(axis=1) of a pivot
CumSum(pivot) ==
    [l \in DOMAIN pivot |-> [m \in DOMAIN pivot[l] |->
        LET upto == SortMonths({k \in DOMAIN pivot[l] : k = m \/ MonthLess(k, m)})
        IN  SumSeq([i \in 1..Len(upto) |-> pivot[l][upto[i]]])]]

\* lines 61-65
monthly_summary(tx_df) ==
    { [Location |-> e.Location, YearMonth |-> e.YearMonth, TxType |-> e.TxType,
       Qty |-> GroupQty(tx_df, e.Location, e.YearMonth, e.TxType),
       SQM |-> GroupSqm(tx_df, e.Location, e.YearMonth, e.TxType),
       Case_No |-> Cardinality({x.Case_No : x \in {y \in Range(tx_df) :
                       /\ y.Location = e.Location
                       /\ y.YearMonth = e.YearMonth
                       /\ y.TxType = e.TxType}})] : e \in Range(tx_df) }

\* lines 14-166.  sorted() of names with None among them raises TypeError;
\* pivot_table on the frame without columns raises KeyError.
create_proper_monthly_warehouse_analysis(stream) ==
    LET tx_df == transactions(stream)
        names == {e.Location : e \in Range(tx_df)}
        stock_df == ProperStockRows(tx_df, SortNames(names),
                                    SortMonths({e.YearMonth : e \in Range(tx_df)}))
        inbound_pivot == PivotTable(stock_df, LAMBDA r : r.Inbound_Qty)
        outbound_pivot == PivotTable(stock_df, LAMBDA r : r.Outbound_Qty)
    IN  IF stream = <<>> \/ tx_df = <<>> THEN NoResults
        ELSE IF None \in names /\ Cardinality(names) > 1 THEN [status |-> "TypeError"]
        ELSE IF stock_df = <<>> THEN [status |-> "KeyError"]
        ELSE [status |-> "ok",
              monthly_stock_detail |-> stock_df,
              monthly_inbound_pivot |-> inbound_pivot,
              monthly_outbound_pivot |-> outbound_pivot,
              monthly_closing_stock_pivot |-> PivotTable(stock_df, LAMBDA r : r.Closing_Stock),
              cumulative_inbound |-> CumSum(inbound_pivot),
              cumulative_outbound |-> CumSum(outbound_pivot),
              monthly_summary_raw |-> monthly_summary(tx_df)]

-----------------------------------------------------------------------------
(* analysis.py: WarehouseToSiteTracker, fed by process_movement_file *)

\* WAREHOUSE_COLS_MAP['HITACHI']
WAREHOUSE_COLS == << <<"D", "S", "V", " ", "O", "u", "t", "d", "o", "o", "r">>, <<"D", "S", "V", " ", "I", "n", "d", "o", "o", "r">>, <<"D", "S", "V", " ", "A", "l", " ", "M", "a", "r", "k", "a", "z">>, <<"H", "a", "u", "l", "e", "r", " ", "I", "n", "d", "o", "o", "r">>, <<"D", "S", "V", " ", "M", "Z", "P">>, <<"M", "O", "S", "B">>, <<"S", "h", "i", "f", "t", "i", "n", "g">> >>

SITE_COLS == << <<"D", "A", "S">>, <<"M", "I", "R">>, <<"S", "H", "U">>, <<"A", "G", "I">> >>

\* the columns of the two lists that the layout has, by position
LayoutWarehouses == PositionsOf(Layout, WAREHOUSE_COLS)

LayoutSites == PositionsOf(Layout, SITE_COLS)

JourneyWarehouses(columns) ==
    IF columns = Layout THEN LayoutWarehouses ELSE PositionsOf(columns, WAREHOUSE_COLS)

JourneySites(columns) ==
    IF columns = Layout THEN LayoutSites ELSE PositionsOf(columns, SITE_COLS)

\* process_movement_file 620-636 and add_case_journey 55-70: the dated columns
\* among cols (positions in the frame), in the order of the list
RECURSIVE JourneyEvents(_, _, _, _)
JourneyEvents(columns, row, cols, type) ==
    IF cols = <<>> THEN <<>>
    ELSE LET rest == JourneyEvents(columns, row, Tail(cols), type)
         IN  IF row[Head(cols)].t # NaT
             THEN << [date |-> row[Head(cols)].t,
                      location |-> columns[Head(cols)], type |-> type,
                      original_col |-> columns[Head(cols)]] >> \o rest
             ELSE rest

\* add_case_journey 87-101
TrackerName(wh) ==
    IF Contains(lower(wh), <<"i", "n", "d", "o", "o", "r">>) THEN <<"D", "S", "V", " ", "I", "n", "d", "o", "o", "r">>
    ELSE IF Contains(lower(wh), <<"a", "l", " ", "m", "a", "r", "k", "a", "z">>) \/ Contains(lower(wh), <<"m", "a", "r", "k", "a", "z">>)
         THEN <<"D", "S", "V", " ", "A", "L", " ", "M", "A", "R", "K", "A", "Z">>
    ELSE IF Contains(lower(wh), <<"o", "u", "t", "d", "o", "o", "r">>) THEN <<"D", "S", "V", " ", "O", "u", "t", "d", "o", "o", "r">>
    ELSE IF Contains(lower(wh), <<"m", "o", "s", "b">>) THEN <<"M", "O", "S", "B">>
    ELSE IF Contains(lower(wh), <<"m", "z", "p">>) THEN <<"D", "S", "V", " ", "M", "Z", "P">>
    ELSE wh

\* add_case_journey 104-128: <<route_type, source_warehouse>>
RouteOf(normalized_sequence) ==
    LET has(name) == name \in Range(normalized_sequence)
    IN  IF has(<<"D", "S", "V", " ", "I", "n", "d", "o", "o", "r">>)
        THEN (IF has(<<"D", "S", "V", " ", "A", "L", " ", "M", "A", "R", "K", "A", "Z">>)
              THEN <<"R1", <<"D", "S", "V", " ", "A", "L", " ", "M", "A", "R", "K", "A", "Z">>>>
              ELSE <<"R2", <<"D", "S", "V", " ", "I", "n", "d", "o", "o", "r">>>>)
        ELSE IF has(<<"D", "S", "V", " ", "O", "u", "t", "d", "o", "o", "r">>) THEN <<"R3", <<"D", "S", "V", " ", "A", "L", " ", "M", "A", "R", "K", "A", "Z">>>>
        ELSE IF has(<<"M", "O", "S", "B">>) THEN <<"R4", <<"M", "O", "S", "B">>>>
        ELSE IF normalized_sequence # <<>>
             THEN <<"OTHER", normalized_sequence[Len(normalized_sequence)]>>
        ELSE <<"", None>>

\* add_case_journey 49-143: the deliveries the call appends (Supplier, SQM and
\* CBM are passed through and left out)
add_case_journey(columns, row, case_no, quantity) ==
    LET all_events == SortByDate(JourneyEvents(columns, row, JourneyWarehouses(columns), "warehouse")
                                 \o JourneyEvents(columns, row, JourneySites(columns), "site"))
        final_event == all_events[Len(all_events)]
        warehouse_events == SelectSeq(all_events, LAMBDA e : e.type = "warehouse")
        warehouse_sequence == [i \in 1..Len(warehouse_events) |-> warehouse_events[i].location]
        normalized_sequence == [i \in 1..Len(warehouse_sequence) |->
                                   TrackerName(warehouse_sequence[i])]
        route == RouteOf(normalized_sequence)
    IN  IF Len(all_events) < 2 THEN <<>>
        ELSE IF final_event.type # "site" THEN <<>>
        ELSE IF route[2] = None THEN <<>>
        ELSE << [Case_No |-> case_no,
                 Quantity |-> quantity,
                 Source_Warehouse |-> route[2],
                 Destination_Site |-> final_event.location,
                 Delivery_Date |-> final_event.date,
                 Route_Type |-> route[1],
                 Warehouse_Sequence |-> normalized_sequence,
                 All_Warehouses |-> warehouse_sequence] >>

\* process_movement_file 585-588: to_numeric(...).fillna(1), or 1 without the column
TrackerQuantity(columns, row) ==
    LET qty_col == ColumnsOf(columns).qty_col
    IN  IF qty_col = 0 THEN Whole(1)
        ELSE IF row[qty_col].n.nan THEN Whole(1)
        ELSE row[qty_col].n.v

RECURSIVE TrackerDeliveries(_, _, _)
TrackerDeliveries(columns, rows, idx) ==
    IF idx > Len(rows) THEN <<>>
    ELSE add_case_journey(columns, rows[idx], CaseNoOfRow(columns, rows[idx], idx),
                          TrackerQuantity(columns, rows[idx]))
         \o TrackerDeliveries(columns, rows, idx + 1)

-----------------------------------------------------------------------------
(* HVDCStockEngine.load_invoice_data and calculate_cost_analysis *)

date_patterns == << <<"d", "a", "t", "e">>, <<"m", "o", "n", "t", "h">>,
    <<"o", "p", "e", "r", "a", "t", "i", "o", "n", " ", "m", "o", "n", "t", "h">>,
    <<"p", "e", "r", "i", "o", "d">> >>

category_patterns == << <<"c", "a", "t", "e", "g", "o", "r", "y">>,
    <<"l", "o", "c", "a", "t", "i", "o", "n">>,
    <<"w", "a", "r", "e", "h", "o", "u", "s", "e">>, <<"t", "y", "p", "e">> >>

cost_patterns == << <<"t", "o", "t", "a", "l">>, <<"c", "o", "s", "t">>,
    <<"a", "m", "o", "u", "n", "t">>, <<"v", "a", "l", "u", "e">>,
    <<"p", "r", "i", "c", "e">> >>

\* the columns of the invoice sheet
InvoiceLayout == << <<"D", "a", "t", "e">>,
                    <<"C", "a", "t", "e", "g", "o", "r", "y">>,
                    <<"T", "o", "t", "a", "l">> >>

\* invoice_files = None, or a sheet without rows
NoInvoice == [columns |-> InvoiceLayout, rows |-> <<>>]

\* lines 232-234: what load_invoice_data reads off df.columns
ReadInvoiceColumns(columns) ==
    LET At(col) == IF col = None THEN 0 ELSE IndexIn(columns, col)
    IN  [date_col |-> At(find_column(columns, date_patterns)),
         category_col |-> At(find_column(columns, category_patterns)),
         cost_col |-> At(find_column(columns, cost_patterns))]

InvoiceColumns == ReadInvoiceColumns(InvoiceLayout)

\* lines 249-261: the location of a cost row
CostLocation(cols, row) ==
    IF cols.category_col = 0 THEN UNKNOWN
    ELSE IF row[cols.category_col].na THEN UNKNOWN
    ELSE LET category == row[cols.category_col].s
             cat_lower == lower(category)
         IN  IF Contains(cat_lower, <<"i", "n", "d", "o", "o", "r">>)
                \/ Contains(cat_lower, <<"m", "4", "4">>)
             THEN <<"D", "S", "V", " ", "I", "n", "d", "o", "o", "r">>
             ELSE IF Contains(cat_lower, <<"m", "a", "r", "k", "a", "z">>)
             THEN <<"D", "S", "V", " ", "A", "l", " ", "M", "a", "r", "k", "a", "z">>
             ELSE IF Contains(cat_lower, <<"o", "u", "t", "d", "o", "o", "r">>)
             THEN <<"D", "S", "V", " ", "O", "u", "t", "d", "o", "o", "r">>
             ELSE IF Contains(cat_lower, <<"m", "o", "s", "b">>)
             THEN <<"M", "O", "S", "B">>
             ELSE category

\* lines 243-247: the date of a cost row; now is datetime.now()
CostDate(cols, row, now) ==
    IF cols.date_col # 0 /\ ~row[cols.date_col].na
    THEN row[cols.date_col].t
    ELSE now

\* lines 264-279: the cost record of row idx, if its cost is positive
CostRecord(cols, row, idx, now) ==
    LET cost_val == row[cols.cost_col].n
    IN  IF cost_val.nan THEN <<>>
        ELSE IF cost_val.v > 0
        THEN << [TxID |-> <<"COST_", idx, YearMonthOf(CostDate(cols, row, now))>>,
                 Case_No |-> <<"COST_", idx>>,
                 Date |-> CostDate(cols, row, now),
                 Loc_From |-> None,
                 Loc_To |-> CostLocation(cols, row),
                 Site |-> UNK,
                 Qty |-> 0,
                 SQM |-> Num(0),
                 Cost |-> cost_val.v,
                 TxType |-> "COST",
                 SOURCE_FILE |-> "HVDC INVOICE.xlsx"] >>
        ELSE <<>>

RECURSIVE CostRecordsFrom(_, _, _, _)
CostRecordsFrom(cols, rows, idx, now) ==
    IF idx > Len(rows) THEN <<>>
    ELSE CostRecord(cols, rows[idx], idx, now)
         \o CostRecordsFrom(cols, rows, idx + 1, now)

\* lines 213-287.  A sheet without a cost column gives an empty frame; so does
\* a row of positive cost whose date is NaT, since NaT.strftime (line 268)
\* raises ValueError and the except clause returns an empty frame.
load_invoice_data(frame, now) ==
    LET cols == IF frame.columns = InvoiceLayout THEN InvoiceColumns
                ELSE ReadInvoiceColumns(frame.columns)
    IN  IF cols.cost_col = 0 THEN <<>>
        ELSE IF \E i \in 1..Len(frame.rows) :
                   /\ ~frame.rows[i][cols.cost_col].n.nan
                   /\ frame.rows[i][cols.cost_col].n.v > 0
                   /\ CostDate(cols, frame.rows[i], now) = NaT
        THEN <<>>
        ELSE CostRecordsFrom(cols, frame.rows, 1, now)

NoCostAnalysis == [monthly_cost |-> {}, cost_statistics |-> {}]

CostsAt(cost_records, location) ==
    SelectSeq(cost_records, LAMBDA r : r.Loc_To = location)

\* lines 472-507: the cost per location and month, and per location the total,
\* the mean in hundredths, the least and the greatest cost
calculate_cost_analysis(cost_records) ==
    IF cost_records = <<>> THEN NoCostAnalysis
    ELSE [monthly_cost |->
             { [Location |-> r.Loc_To,
                YearMonth |-> YearMonthOf(r.Date),
                Cost |-> LET cell == SelectSeq(cost_records, LAMBDA x :
                                        /\ x.Loc_To = r.Loc_To
                                        /\ YearMonthOf(x.Date) = YearMonthOf(r.Date))
                         IN  SumSeq([i \in 1..Len(cell) |-> cell[i].Cost])] :
               r \in Range(cost_records) },
          cost_statistics |->
             { [Location |-> r.Loc_To,
                Total_Cost |-> SumSeq([i \in 1..Len(CostsAt(cost_records, r.Loc_To)) |->
                                          CostsAt(cost_records, r.Loc_To)[i].Cost]),
                Avg_Cost |-> (100 * SumSeq([i \in 1..Len(CostsAt(cost_records, r.Loc_To)) |->
                                               CostsAt(cost_records, r.Loc_To)[i].Cost]))
                             \div Len(CostsAt(cost_records, r.Loc_To)),
                Min_Cost |-> CHOOSE c \in {x.Cost : x \in Range(CostsAt(cost_records, r.Loc_To))} :
                                \A x \in Range(CostsAt(cost_records, r.Loc_To)) : c <= x.Cost,
                Max_Cost |-> CHOOSE c \in {x.Cost : x \in Range(CostsAt(cost_records, r.Loc_To))} :
                                \A x \in Range(CostsAt(cost_records, r.Loc_To)) : c >= x.Cost] :
               r \in Range(cost_records) }]

\* a variant that concatenates the cost records into the stream
MovementsWithCosts(all_movements, cost_records) == all_movements \o cost_records

\* run_complete_analysis 599-605: the stream is the concatenation of the
\* movements of the warehouse files; the cost records are kept apart
combined_movements(all_movements, cost_records) == all_movements

-----------------------------------------------------------------------------
(* The rows of the model *)

LocationColumns(columns) ==
    Range(ColumnsOf(columns).warehouse_cols) \cup Range(ColumnsOf(columns).site_cols)

CellsOf(columns, row) ==
    Cardinality({i \in LocationColumns(columns) : ~row[i].na})

DateCells(dates) == {EmptyCell} \cup {DateCell(d) : d \in dates}

\* every row of the layout: the case, a quantity, and a date or nothing in each
\* of the location columns that follow
RowsOfLayout(dates) ==
    {<<NumCell(0), NumCell(q)>> \o visits :
        q \in SampleQty, visits \in [1..(Len(Layout) - 2) -> DateCells(dates)]}

SampleRows == RowsOfLayout(SampleDates)

GapRows == RowsOfLayout(GapDates)

\* the dated location cells of a frame
RECURSIVE TotalCells(_)
TotalCells(rows) ==
    IF rows = <<>> THEN 0 ELSE CellsOf(Layout, Head(rows)) + TotalCells(Tail(rows))

\* the reader numbers the cases
RECURSIVE NumberedFrom(_, _)
NumberedFrom(rows, i) ==
    IF i > Len(rows) THEN <<>>
    ELSE <<[rows[i] EXCEPT ![1] = NumCell(i)]>> \o NumberedFrom(rows, i + 1)

Numbered(rows) == NumberedFrom(rows, 1)

SOURCE_FILE == "HVDC WAREHOUSE.xlsx"

NoValidation == [status |-> "none"]

-----------------------------------------------------------------------------
(* The runs *)

Start ==
    /\ movements = <<>>
    /\ daily_stock = <<>>
    /\ monthly_results = NoResults
    /\ validation = NoValidation
    /\ first_results = NoResults
    /\ first_validation = NoValidation
    /\ corrected_results = NoResults
    /\ corrected_validation = NoValidation
    /\ deliveries = <<>>
    /\ pc = "read"
    /\ run = 0
    /\ all_cost_records = <<>>
    /\ cost_analysis = NoCostAnalysis
    /\ label = None
    /\ canonical = None
    /\ renamed = None
    /\ other_movements = <<>>
    /\ other_results = NoResults

Init ==
    /\ \E n \in 0..MaxRecords : \E rows \in [1..n -> SampleRows] :
          /\ TotalCells(rows) <= MaxCells
          /\ df = [columns |-> Layout, rows |-> Numbered(rows)]
    /\ invoice_df = NoInvoice
    /\ Start

\* frames whose dates leave calendar months empty
InitGap ==
    /\ \E n \in 0..MaxRecords : \E rows \in [1..n -> GapRows] :
          /\ TotalCells(rows) <= MaxCells
          /\ df = [columns |-> Layout, rows |-> Numbered(rows)]
    /\ invoice_df = NoInvoice
    /\ Start

\* the clock at the time of the run
NowDates == {Date(2024, 2, 5), Date(2024, 3, 15)}

\* run_complete_analysis 560-600: the movements of the file and the cost
\* records of the invoice; without any movement the run ends
ExtractWarehouseMovements ==
    /\ pc = "read"
    /\ \E now \in NowDates : all_cost_records' = load_invoice_data(invoice_df, now)
    /\ movements' = combined_movements(extract_warehouse_movements(df, SOURCE_FILE),
                                       all_cost_records')
    /\ pc' = IF movements' = <<>> THEN "nodata" ELSE "extracted"
    /\ UNCHANGED <<df, daily_stock, monthly_results, validation, first_results,
                   first_validation, corrected_results, corrected_validation,
                   deliveries, run, invoice_df, cost_analysis, name_vars>>

\* run_complete_analysis 609
CalculateDailyStock ==
    /\ pc = "extracted"
    /\ daily_stock' = calculate_daily_stock(movements)
    /\ pc' = "daily"
    /\ UNCHANGED <<df, movements, monthly_results, validation, first_results,
                   first_validation, corrected_results, corrected_validation,
                   deliveries, run>>
    /\ UNCHANGED <<invoice_df, all_cost_records, cost_analysis, name_vars>>

\* run_complete_analysis 610-611, and the call of line 610 once more on the stream the
\* first call left
CalculateMonthlyWarehouseStock ==
    /\ \/ pc = "daily" /\ run = 0
       \/ pc = "validated" /\ run = 1
    /\ movements' = WithYearMonth(movements)
    /\ monthly_results' = calculate_monthly_warehouse_stock(movements)
    /\ first_results' = monthly_results
    /\ first_validation' = validation
    /\ run' = run + 1
    /\ pc' = "monthly"
    /\ cost_analysis' = IF run = 0 THEN calculate_cost_analysis(all_cost_records)
                        ELSE cost_analysis
    /\ UNCHANGED <<df, daily_stock, validation, corrected_results,
                   corrected_validation, deliveries>>
    /\ UNCHANGED <<invoice_df, all_cost_records, name_vars>>

\* run_complete_analysis 620
ValidateCalculations ==
    /\ pc = "monthly"
    /\ validation' = validate_calculations(monthly_results, daily_stock)
    /\ pc' = "validated"
    /\ UNCHANGED <<df, movements, daily_stock, monthly_results, first_results,
                   first_validation, corrected_results, corrected_validation,
                   deliveries, run>>
    /\ UNCHANGED <<invoice_df, all_cost_records, cost_analysis, name_vars>>

\* run_stock_logic_validation 234
CreateProperMonthlyWarehouseAnalysis ==
    /\ pc = "validated" /\ run = 2
    /\ corrected_results' = create_proper_monthly_warehouse_analysis(movements)
    /\ pc' = "corrected"
    /\ UNCHANGED <<df, movements, daily_stock, monthly_results, validation,
                   first_results, first_validation, corrected_validation,
                   deliveries, run>>
    /\ UNCHANGED <<invoice_df, all_cost_records, cost_analysis, name_vars>>

\* run_stock_logic_validation 236-241: no validation of an empty result
ValidateStockLogic ==
    /\ pc = "corrected"
    /\ corrected_results.status = "ok"
    /\ corrected_validation' = validate_stock_logic(corrected_results)
    /\ pc' = "checked"
    /\ UNCHANGED <<df, movements, daily_stock, monthly_results, validation,
                   first_results, first_validation, corrected_results,
                   deliveries, run>>
    /\ UNCHANGED <<invoice_df, all_cost_records, cost_analysis, name_vars>>

\* process_movement_file 608-641
ProcessMovementFile ==
    /\ pc \in {"nodata", "checked"} \/ (pc = "corrected" /\ corrected_results.status # "ok")
    /\ deliveries' = TrackerDeliveries(df.columns, df.rows, 1)
    /\ pc' = "tracked"
    /\ UNCHANGED <<df, movements, daily_stock, monthly_results, validation,
                   first_results, first_validation, corrected_results,
                   corrected_validation, run>>
    /\ UNCHANGED <<invoice_df, all_cost_records, cost_analysis, name_vars>>

Next ==
    \/ ExtractWarehouseMovements
    \/ CalculateDailyStock
    \/ CalculateMonthlyWarehouseStock
    \/ ValidateCalculations
    \/ CreateProperMonthlyWarehouseAnalysis
    \/ ValidateStockLogic
    \/ ProcessMovementFile

Spec == Init /\ [][Next]_vars

SpecGap == InitGap /\ [][Next]_vars

-----------------------------------------------------------------------------
(* The validators on ledgers of any content *)

\* the bound on the rows of such a ledger
MaxRows == 2

SampleLocations == {LayoutColumns.location[3], LayoutColumns.location[5]}

\* one row per month, from January 2024 on
LedgerRow(i, location, opening, inbound, outbound, closing) ==
    [Location |-> location,
     YearMonth |-> <<2024, i>>,
     Opening_Stock |-> opening,
     Inbound_Qty |-> inbound,
     Outbound_Qty |-> outbound,
     Closing_Stock |-> closing,
     Inbound_SQM |-> 0,
     Outbound_SQM |-> 0]

LedgerRowsAt(i) ==
    {LedgerRow(i, l, o, a, b, c) :
        l \in SampleLocations, o \in {Whole(-1), 0}, a \in {0, Whole(1)}, b \in {0, Whole(1)},
        c \in {Whole(-1), 0}}

\* what either aggregator returns: the empty dictionary for the empty stream
ResultsOf(table) ==
    IF table = <<>> THEN NoResults
    ELSE [status |-> "ok", monthly_stock_detail |-> table]

InitV ==
    /\ df = [columns |-> Layout, rows |-> <<>>]
    /\ movements = <<>>
    /\ daily_stock = <<>>
    /\ \E n \in 0..MaxRows : \E table \in [1..n -> UNION {LedgerRowsAt(i) : i \in 1..n}] :
          /\ \A i \in 1..n : table[i] \in LedgerRowsAt(i)
          /\ monthly_results = ResultsOf(table)
          /\ corrected_results = ResultsOf(table)
    /\ validation = NoValidation
    /\ first_results = NoResults
    /\ first_validation = NoValidation
    /\ corrected_validation = NoValidation
    /\ deliveries = <<>>
    /\ pc \in {"monthly", "corrected"}
    /\ run = 0
    /\ invoice_df = NoInvoice
    /\ all_cost_records = <<>>
    /\ cost_analysis = NoCostAnalysis
    /\ label = None
    /\ canonical = None
    /\ renamed = None
    /\ other_movements = <<>>
    /\ other_results = NoResults

\* CorrectedStockEngine.validate_stock_logic called on a result as it is
CallValidateStockLogic ==
    /\ pc = "corrected"
    /\ corrected_validation' = validate_stock_logic(corrected_results)
    /\ pc' = "checked"
    /\ UNCHANGED <<df, movements, daily_stock, monthly_results, validation,
                   first_results, first_validation, corrected_results,
                   deliveries, run>>
    /\ UNCHANGED <<invoice_df, all_cost_records, cost_analysis, name_vars>>

NextV ==
    \/ ValidateCalculations
    \/ CallValidateStockLogic

SpecV == InitV /\ [][NextV]_vars

-----------------------------------------------------------------------------
(* Records with dimension and quantity cells of any content *)

\* df.columns with the dimension columns, without them, and without a
\* quantity column
DimLayout == << <<"C", "a", "s", "e", " ", "N", "o", ".">>, <<"Q", "t", "y">>, <<"L", "(", "c", "m", ")">>, <<"W", "(", "c", "m", ")">>, <<"D", "S", "V", " ", "I", "n", "d", "o", "o", "r">>, <<"D", "A", "S">> >>

PlainLayout == << <<"C", "a", "s", "e", " ", "N", "o", ".">>, <<"Q", "t", "y">>, <<"D", "S", "V", " ", "I", "n", "d", "o", "o", "r">>, <<"D", "A", "S">> >>

NoQtyLayout == << <<"C", "a", "s", "e", " ", "N", "o", ".">>, <<"L", "(", "c", "m", ")">>, <<"W", "(", "c", "m", ")">>, <<"D", "S", "V", " ", "I", "n", "d", "o", "o", "r">>, <<"D", "A", "S">> >>

\* a quantity cell: empty, text, or a number (in hundredths)
QtyCells ==
    {EmptyCell, TextCell(<<"n", "/", "a">>)}
    \cup {NumCell(v) : v \in {Whole(-1), 0, Whole(1) \div 2, Whole(1), Whole(5) \div 2}}

\* a dimension cell: empty, text, or a number of centimetres
DimCells == {EmptyCell, TextCell(<<"n", "/", "a">>), NumCell(0), NumCell(120)}

CellFrames ==
    UNION {{[columns |-> DimLayout, rows |-> << <<NumCell(1), q, l, w, a, b>> >>],
            [columns |-> PlainLayout, rows |-> << <<NumCell(1), q, a, b>> >>],
            [columns |-> NoQtyLayout, rows |-> << <<NumCell(1), l, w, a, b>> >>]} :
           q \in QtyCells, l \in DimCells, w \in DimCells,
           a \in {EmptyCell, DateCell(Date(2024, 1, 10))},
           b \in {EmptyCell, DateCell(Date(2024, 2, 5))}}

InitCells ==
    /\ df \in CellFrames
    /\ invoice_df = NoInvoice
    /\ Start

SpecCells == InitCells /\ [][Next]_vars

-----------------------------------------------------------------------------
(* normalize_warehouse_name on labels of any spelling *)

\* words of warehouse labels, each with the rule whose keyword it is (0: none)
Words == {
    [word |-> <<"i", "n", "d", "o", "o", "r">>, rule |-> 1],
    [word |-> <<"m", "4", "4">>, rule |-> 1],
    [word |-> <<"m", "a", "r", "k", "a", "z">>, rule |-> 2],
    [word |-> <<"m", "1">>, rule |-> 2],
    [word |-> <<"o", "u", "t", "d", "o", "o", "r">>, rule |-> 3],
    [word |-> <<"m", "o", "s", "b">>, rule |-> 4],
    [word |-> <<"m", "z", "p">>, rule |-> 5],
    [word |-> <<"d", "h", "l">>, rule |-> 6],
    [word |-> <<"a", "a", "a">>, rule |-> 7],
    [word |-> <<"s", "h", "e", "d">>, rule |-> 0],
    [word |-> <<"y", "a", "r", "d">>, rule |-> 0],
    [word |-> <<"d", "s", "v">>, rule |-> 0]}

UpperChar(c) ==
    IF \E i \in 1..Len(LowerChars) : LowerChars[i] = c
    THEN UpperChars[IndexIn(LowerChars, c)]
    ELSE c

\* a word in lower case, in upper case and capitalized
Spellings(word) ==
    {word,
     [i \in 1..Len(word) |-> UpperChar(word[i])],
     [i \in 1..Len(word) |-> IF i = 1 THEN UpperChar(word[i]) ELSE word[i]]}

\* labels of one word, or of two words separated by a space
Labels ==
    UNION {{[text |-> s, rules |-> {w.rule}] : s \in Spellings(w.word)} : w \in Words}
    \cup UNION {{[text |-> s1 \o << " " >> \o s2, rules |-> {w1.rule, w2.rule}] :
                    s1 \in Spellings(w1.word), s2 \in Spellings(w2.word)} :
                w1 \in Words, w2 \in Words}

InitNames ==
    /\ label \in {l.text : l \in Labels}
    /\ canonical = None
    /\ renamed = None
    /\ other_movements = <<>>
    /\ other_results = NoResults
    /\ pc = "label"
    /\ df = [columns |-> Layout, rows |-> <<>>]
    /\ invoice_df = NoInvoice
    /\ movements = <<>>
    /\ daily_stock = <<>>
    /\ monthly_results = NoResults
    /\ validation = NoValidation
    /\ first_results = NoResults
    /\ first_validation = NoValidation
    /\ corrected_results = NoResults
    /\ corrected_validation = NoValidation
    /\ deliveries = <<>>
    /\ run = 0
    /\ all_cost_records = <<>>
    /\ cost_analysis = NoCostAnalysis

NormalizeWarehouseName ==
    /\ pc = "label"
    /\ canonical' = normalize_warehouse_name(label)
    /\ pc' = "named"
    /\ UNCHANGED <<df, movements, daily_stock, monthly_results, validation,
                   first_results, first_validation, corrected_results,
                   corrected_validation, deliveries, run, invoice_df,
                   all_cost_records, cost_analysis, label, renamed,
                   other_movements, other_results>>

\* the name returned by normalize_warehouse_name, given to it again
NormalizeAgain ==
    /\ pc = "named"
    /\ renamed' = normalize_warehouse_name(canonical)
    /\ pc' = "renamed"
    /\ UNCHANGED <<df, movements, daily_stock, monthly_results, validation,
                   first_results, first_validation, corrected_results,
                   corrected_validation, deliveries, run, invoice_df,
                   all_cost_records, cost_analysis, label, canonical,
                   other_movements, other_results>>

NextNames == NormalizeWarehouseName \/ NormalizeAgain

SpecNames == InitNames /\ [][NextNames]_vars

-----------------------------------------------------------------------------
(* Runs with an invoice sheet *)

MaxInvoiceRows == 1

CostDates == {Date(2024, 1, 10)}

\* warehouse files of one record with at most two visits
CostFrames ==
    {[columns |-> Layout, rows |-> Numbered(<<row>>)] :
        row \in {r \in RowsOfLayout(CostDates) :
                    r[2] = NumCell(Whole(1)) /\ CellsOf(Layout, r) <= 2}}

\* a row of the invoice sheet: a date, an unparsable date or none; a category
\* or none; a cost that is no number, zero or positive
InvoiceRows ==
    {<<d, c, v>> :
        d \in {EmptyCell, TextCell(<<"n", "/", "a">>), DateCell(Date(2024, 2, 5))},
        c \in {EmptyCell, TextCell(<<"I", "n", "d", "o", "o", "r", " ", "M", "4", "4">>)},
        v \in {TextCell(<<"n", "/", "a">>), NumCell(0), NumCell(7)}}

InitCost ==
    /\ df \in CostFrames
    /\ \E n \in 0..MaxInvoiceRows : \E rows \in [1..n -> InvoiceRows] :
          invoice_df = [columns |-> InvoiceLayout, rows |-> rows]
    /\ Start

SpecCost == InitCost /\ [][Next]_vars

-----------------------------------------------------------------------------
(* The aggregator on two streams *)

PairDates == {Date(2024, 1, 10), Date(2024, 2, 5)}

\* a record that visits DSV Indoor and DAS, and one that visits DSV Outdoor
\* and MIR, or neither
IndoorRows ==
    {<<NumCell(0), NumCell(Whole(1)), a, s, EmptyCell, EmptyCell>> :
        a \in DateCells(PairDates), s \in {EmptyCell, DateCell(Date(2024, 2, 5))}}

OutdoorRows ==
    {<<NumCell(0), NumCell(Whole(1)), EmptyCell, EmptyCell, b, t>> :
        b \in DateCells(PairDates), t \in DateCells(PairDates)}

PairFrames ==
    {[columns |-> Layout, rows |-> Numbered(<<x, y>>)] :
        x \in IndoorRows, y \in OutdoorRows}

InitPair ==
    /\ \E frame \in PairFrames : \E other \in PairFrames :
          /\ df = frame
          /\ movements = extract_warehouse_movements(frame, SOURCE_FILE)
          /\ other_movements = extract_warehouse_movements(other, SOURCE_FILE)
    /\ invoice_df = NoInvoice
    /\ daily_stock = <<>>
    /\ monthly_results = NoResults
    /\ validation = NoValidation
    /\ first_results = NoResults
    /\ first_validation = NoValidation
    /\ corrected_results = NoResults
    /\ corrected_validation = NoValidation
    /\ deliveries = <<>>
    /\ pc = "streams"
    /\ run = 0
    /\ all_cost_records = <<>>
    /\ cost_analysis = NoCostAnalysis
    /\ label = None
    /\ canonical = None
    /\ renamed = None
    /\ other_results = NoResults

\* calculate_monthly_warehouse_stock on each of the two streams
CalculateBoth ==
    /\ pc = "streams"
    /\ monthly_results' = calculate_monthly_warehouse_stock(movements)
    /\ other_results' = calculate_monthly_warehouse_stock(other_movements)
    /\ pc' = "compared"
    /\ UNCHANGED <<df, movements, daily_stock, validation, first_results,
                   first_validation, corrected_results, corrected_validation,
                   deliveries, run, invoice_df, all_cost_records, cost_analysis,
                   label, canonical, renamed, other_movements>>

NextPair == CalculateBoth

SpecPair == InitPair /\ [][NextPair]_vars

-----------------------------------------------------------------------------
(* Frames with a location column of any label *)

\* the fixed site identifiers
SiteIdentifiers == Range(SITE_COLS)

\* labels of a column: a site identifier, and labels that contain one
ColumnLabels == {<<"D", "A", "S">>, <<"S", "H", "U">>, <<"A", "d", "m", "i", "r", "a", "l">>, <<"S", "h", "u", "t", "d", "o", "w", "n">>, <<"M", "a", "g", "i", "c", " ", "N", "o", ".">>, <<"R", "e", "m", "a", "r", "k", "s">>}

LabelFrames ==
    {[columns |-> << <<"C", "a", "s", "e", " ", "N", "o", ".">>, <<"Q", "t", "y">>, <<"D", "S", "V", " ", "I", "n", "d", "o", "o", "r">>, col >>,
      rows |-> << <<NumCell(1), NumCell(q), a, b>> >>] :
        col \in ColumnLabels, q \in SampleQty,
        a \in {EmptyCell, DateCell(Date(2024, 1, 10))},
        b \in {EmptyCell, DateCell(Date(2024, 2, 5))}}

InitLabels ==
    /\ df \in LabelFrames
    /\ invoice_df = NoInvoice
    /\ Start

SpecLabels == InitLabels /\ [][Next]_vars

-----------------------------------------------------------------------------
(* Properties *)

\* the rows of a ledger
Detail(results) ==
    IF results.status = "ok" THEN results.monthly_stock_detail ELSE <<>>

\* the rows of one location, and the neighbours among them in month order
RowsAt(stock_df, location) == {r \in Range(stock_df) : r.Location = location}

Consecutive(stock_df, earlier, later) ==
    /\ earlier.Location = later.Location
    /\ MonthLess(earlier.YearMonth, later.YearMonth)
    /\ ~\E r \in RowsAt(stock_df, earlier.Location) :
          MonthLess(earlier.YearMonth, r.YearMonth) /\ MonthLess(r.YearMonth, later.YearMonth)

Continuous(stock_df) ==
    \A earlier, later \in Range(stock_df) :
        Consecutive(stock_df, earlier, later)
            => earlier.Closing_Stock = later.Opening_Stock

Arithmetic(stock_df) ==
    \A r \in Range(stock_df) :
        r.Closing_Stock = r.Opening_Stock + r.Inbound_Qty - r.Outbound_Qty

LastRow(stock_df, location) ==
    CHOOSE r \in RowsAt(stock_df, location) :
        \A x \in RowsAt(stock_df, location) : ~MonthLess(r.YearMonth, x.YearMonth)

NetFlow(stock_df, location) ==
    LET loc_data == SelectSeq(stock_df, LAMBDA r : r.Location = location)
    IN  SumSeq([i \in 1..Len(loc_data) |-> loc_data[i].Inbound_Qty])
        - SumSeq([i \in 1..Len(loc_data) |-> loc_data[i].Outbound_Qty])

Balanced(stock_df) ==
    \A l \in {r.Location : r \in Range(stock_df)} :
        NetFlow(stock_df, l) = LastRow(stock_df, l).Closing_Stock

\* a carried balance: two neighbouring rows with stock between them
Carries(stock_df) ==
    \E earlier, later \in Range(stock_df) :
        Consecutive(stock_df, earlier, later) /\ earlier.Closing_Stock # 0

\* C1: in the ledger of calculate_monthly_warehouse_stock and in the ledger of
\* create_proper_monthly_warehouse_analysis, for every location and every two
\* rows of it that are neighbours in month order, the closing stock of the
\* earlier row is the opening stock of the later row.
C1_ClosingIsNextOpening ==
    /\ Continuous(Detail(monthly_results))
    /\ Continuous(Detail(corrected_results))

C1_Witness ==
    /\ Carries(Detail(monthly_results))
    /\ Carries(Detail(corrected_results))

\* C2: every row of the monthly ledger of either aggregator has
\* Closing_Stock = Opening_Stock + Inbound_Qty - Outbound_Qty.
C2_ClosingArithmetic ==
    /\ Arithmetic(Detail(monthly_results))
    /\ Arithmetic(Detail(corrected_results))

C2_Witness ==
    /\ \E r \in Range(Detail(monthly_results)) :
          r.Opening_Stock # 0 /\ r.Outbound_Qty # 0
    /\ \E r \in Range(Detail(corrected_results)) :
          r.Opening_Stock # 0 /\ r.Outbound_Qty # 0

\* C3: for every location of the monthly ledger of either aggregator, the
\* inbound quantities of its rows minus the outbound quantities of its rows
\* add up to the closing stock of its last row, and validate_stock_logic
\* reports no balance error on the ledger of its aggregator.
C3_NetFlowIsFinalClosing ==
    /\ Balanced(Detail(monthly_results))
    /\ Balanced(Detail(corrected_results))
    /\ pc = "checked" =>
          \A i \in 1..Len(corrected_validation.errors) :
              corrected_validation.errors[i].kind # "balance"

C3_Witness ==
    /\ pc = "checked"
    /\ \E l \in {r.Location : r \in Range(Detail(monthly_results))} :
          /\ Cardinality(RowsAt(Detail(monthly_results), l)) >= 2
          /\ \E r \in RowsAt(Detail(monthly_results), l) : r.Inbound_Qty # 0
          /\ LastRow(Detail(monthly_results), l).Outbound_Qty # 0
    /\ \E l \in {r.Location : r \in Range(Detail(corrected_results))} :
          /\ Cardinality(RowsAt(Detail(corrected_results), l)) >= 2
          /\ LastRow(Detail(corrected_results), l).Closing_Stock # 0

MovementsOfCase(i) == SelectSeq(movements, LAMBDA m : m.Case_No = <<"case", i>>)

\* the location columns of record i that hold a date
Visits(i) == {c \in LocationColumns(df.columns) : ~df.rows[i][c].na}

OneVisit(i) == Cardinality(Visits(i)) = 1

TheVisit(i) == CHOOSE c \in Visits(i) : TRUE

IsSite(c) == c \in Range(ColumnsOf(df.columns).site_cols)

IsWarehouse(c) == c \in Range(ColumnsOf(df.columns).warehouse_cols)

\* the one movement of a record whose only visit is a site
IsUnknownDelivery(m, i) ==
    /\ m.TxType = "OUT"
    /\ m.TxID[3] = "DELIVERY"
    /\ m.Loc_From = UNKNOWN
    /\ m.Loc_To = None
    /\ m.Site = df.columns[TheVisit(i)]
    /\ m.Date = df.rows[i][TheVisit(i)].t

\* the one movement of a record whose only visit is a warehouse
IsFirstInbound(m, i) ==
    /\ m.TxType = "IN"
    /\ m.Loc_From = None
    /\ m.Loc_To = normalize_warehouse_name(df.columns[TheVisit(i)])
    /\ m.Date = df.rows[i][TheVisit(i)].t

\* C5, as the code has it: a record with exactly one populated location
\* column yields exactly one movement from extract_warehouse_movements (the
\* inbound into the warehouse with no source, or the delivery to the site
\* from 'UNKNOWN'), and add_case_journey records no delivery for it.
C5_OneVisit ==
    \A i \in 1..Len(df.rows) :
        OneVisit(i) =>
            /\ pc # "read" =>
                  /\ Len(MovementsOfCase(i)) = 1
                  /\ IF IsSite(TheVisit(i))
                     THEN IsUnknownDelivery(MovementsOfCase(i)[1], i)
                     ELSE IsFirstInbound(MovementsOfCase(i)[1], i)
            /\ pc = "tracked" =>
                  \A k \in 1..Len(deliveries) : deliveries[k].Case_No # <<"case", i>>

C5_Witness ==
    /\ pc = "tracked"
    /\ \E i \in 1..Len(df.rows) : OneVisit(i) /\ IsWarehouse(TheVisit(i))

\* C5, as stated: a record with exactly one populated location column yields
\* no movement from the event extractor.
C5_NoMovement ==
    \A i \in 1..Len(df.rows) :
        (OneVisit(i) /\ pc # "read") => MovementsOfCase(i) = <<>>

\* the frame of the worked example: one record of quantity 5 with warehouse a
\* on 2024-01-10, warehouse b on 2024-01-20 and site s on 2024-02-05
WorkedExample(a, b, s) ==
    /\ Len(df.rows) = 1
    /\ df.rows[1] = [c \in 1..Len(Layout) |->
                        IF c = 1 THEN NumCell(1)
                        ELSE IF c = 2 THEN NumCell(Whole(5))
                        ELSE IF c = a THEN DateCell(Date(2024, 1, 10))
                        ELSE IF c = b THEN DateCell(Date(2024, 1, 20))
                        ELSE IF c = s THEN DateCell(Date(2024, 2, 5))
                        ELSE EmptyCell]

Entry(location, month, opening, inbound, outbound, closing) ==
    [Location |-> location, YearMonth |-> month, Opening_Stock |-> opening,
     Inbound_Qty |-> inbound, Outbound_Qty |-> outbound, Closing_Stock |-> closing]

EntryOf(r) ==
    Entry(r.Location, r.YearMonth, r.Opening_Stock, r.Inbound_Qty,
          r.Outbound_Qty, r.Closing_Stock)

Entries(stock_df) == {EntryOf(r) : r \in Range(stock_df)}

WarehousePairs ==
    {p \in Range(LayoutColumns.warehouse_cols) \X Range(LayoutColumns.warehouse_cols) :
        p[1] # p[2]}

\* C6, as the code has it: for the worked example the ledger has four rows:
\* A January 0, 5, 5, 0; A February 0, 0, 0, 0; B January 0, 5, 0, 5;
\* B February 5, 0, 5, 0 (opening, in, out, closing).
C6_WorkedLedger ==
    \A p \in WarehousePairs : \A s \in Range(LayoutColumns.site_cols) :
        (WorkedExample(p[1], p[2], s) /\ run >= 1) =>
            LET A == LayoutColumns.location[p[1]]
                B == LayoutColumns.location[p[2]]
            IN  /\ Len(Detail(monthly_results)) = 4
                /\ Entries(Detail(monthly_results)) =
                      {Entry(A, <<2024, 1>>, Whole(0), Whole(5), Whole(5), Whole(0)),
                       Entry(A, <<2024, 2>>, Whole(0), Whole(0), Whole(0), Whole(0)),
                       Entry(B, <<2024, 1>>, Whole(0), Whole(5), Whole(0), Whole(5)),
                       Entry(B, <<2024, 2>>, Whole(5), Whole(0), Whole(5), Whole(0))}

C6_Witness ==
    /\ run >= 1
    /\ \E p \in WarehousePairs : \E s \in Range(LayoutColumns.site_cols) :
          WorkedExample(p[1], p[2], s)

\* C6, as stated: for the worked example the rows of the ledger are
\* A January 0, 5, 5, 0; B January 0, 5, 0, 5; B February 5, 0, 5, 0.
C6_ThreeRows ==
    \A p \in WarehousePairs : \A s \in Range(LayoutColumns.site_cols) :
        (WorkedExample(p[1], p[2], s) /\ run >= 1) =>
            LET A == LayoutColumns.location[p[1]]
                B == LayoutColumns.location[p[2]]
            IN  Entries(Detail(monthly_results)) =
                    {Entry(A, <<2024, 1>>, Whole(0), Whole(5), Whole(5), Whole(0)),
                     Entry(B, <<2024, 1>>, Whole(0), Whole(5), Whole(0), Whole(5)),
                     Entry(B, <<2024, 2>>, Whole(5), Whole(0), Whole(5), Whole(0))}

\* C7, as stated: a record whose only populated location column is a site
\* yields exactly one movement, the delivery from 'UNKNOWN' dated at the site
\* visit, and the validator, run after the aggregator on a stream with such
\* movements, returns a report, with no error for them.
C7_SiteOnlyRecord ==
    \A i \in 1..Len(df.rows) :
        (OneVisit(i) /\ IsSite(TheVisit(i))) =>
            /\ pc # "read" =>
                  /\ Len(MovementsOfCase(i)) = 1
                  /\ IsUnknownDelivery(MovementsOfCase(i)[1], i)
            /\ pc = "validated" =>
                  /\ validation.status = "ok"
                  /\ \A k \in 1..Len(validation.errors) :
                        validation.errors[k].Location # UNKNOWN

\* what the validators are promised about a ledger with negative closings
HasNegative(stock_df) == \E r \in Range(stock_df) : r.Closing_Stock < 0

NegativeCount(stock_df) == Len(SelectSeq(stock_df, LAMBDA r : r.Closing_Stock < 0))

PassedWithWarning(report, stock_df) ==
    /\ report.status = "ok"
    /\ report.validation_passed = TRUE
    /\ report.errors = <<>>
    /\ report.warnings = << [kind |-> "negative", count |-> NegativeCount(stock_df)] >>

\* C8, as the code has it: when a ledger has rows with negative closing while
\* every row satisfies the arithmetic check and every pair of neighbours the
\* continuity check, validate_calculations returns validation_passed = true,
\* no error and one warning counting the negative rows; validate_stock_logic
\* does so when in addition, for every location, inbound minus outbound over
\* its rows is the closing of its last row.
C8_NegativeIsWarning ==
    /\ (/\ pc = "validated"
        /\ HasNegative(Detail(monthly_results))
        /\ Arithmetic(Detail(monthly_results))
        /\ Continuous(Detail(monthly_results)))
          => PassedWithWarning(validation, Detail(monthly_results))
    /\ (/\ pc = "checked"
        /\ HasNegative(Detail(corrected_results))
        /\ Arithmetic(Detail(corrected_results))
        /\ Continuous(Detail(corrected_results))
        /\ Balanced(Detail(corrected_results)))
          => PassedWithWarning(corrected_validation, Detail(corrected_results))

C8_Witness ==
    /\ pc = "checked"
    /\ Len(Detail(corrected_results)) >= 2
    /\ HasNegative(Detail(corrected_results))
    /\ Arithmetic(Detail(corrected_results))
    /\ Continuous(Detail(corrected_results))
    /\ Balanced(Detail(corrected_results))
    /\ \E r \in Range(Detail(corrected_results)) : r.Closing_Stock >= 0

\* C8, as stated: when a ledger has rows with negative closing while every row
\* satisfies the arithmetic check and every pair of neighbours the continuity
\* check, either validator returns validation_passed = true, no error and a
\* warning for the negative rows.
C8_PassesEitherValidator ==
    /\ (/\ pc = "validated"
        /\ HasNegative(Detail(monthly_results))
        /\ Arithmetic(Detail(monthly_results))
        /\ Continuous(Detail(monthly_results)))
          => PassedWithWarning(validation, Detail(monthly_results))
    /\ (/\ pc = "checked"
        /\ HasNegative(Detail(corrected_results))
        /\ Arithmetic(Detail(corrected_results))
        /\ Continuous(Detail(corrected_results)))
          => PassedWithWarning(corrected_validation, Detail(corrected_results))

\* the calendar months from one year-month to another
MonthNumber(ym) == ym[1] * 12 + ym[2] - 1

CalendarMonths(from, to) ==
    {<<k \div 12, (k % 12) + 1>> : k \in MonthNumber(from)..MonthNumber(to)}

FirstRow(stock_df, location) ==
    CHOOSE r \in RowsAt(stock_df, location) :
        \A x \in RowsAt(stock_df, location) : ~MonthLess(x.YearMonth, r.YearMonth)

EveryMonth(stock_df) ==
    \A l \in {r.Location : r \in Range(stock_df)} :
        \A m \in CalendarMonths(FirstRow(stock_df, l).YearMonth,
                                LastRow(stock_df, l).YearMonth) :
            \E r \in RowsAt(stock_df, l) :
                /\ r.YearMonth = m
                /\ (r.Inbound_Qty = 0 /\ r.Outbound_Qty = 0)
                      => r.Closing_Stock = r.Opening_Stock

\* C9, as stated: for every location of the ledger, every calendar month from
\* the first to the last month of the location has a row, the months without
\* any movement included, and a row without movement closes as it opened.
C9_EveryCalendarMonth ==
    /\ EveryMonth(Detail(monthly_results))
    /\ EveryMonth(Detail(corrected_results))

\* the warehouse visits of record i that are not later than date d
VisitsUpTo(i, d) ==
    {c \in Visits(i) : IsWarehouse(c) /\ ~DateLess(d, df.rows[i][c].t)}

VisitsBefore(i, d) ==
    {c \in Visits(i) : IsWarehouse(c) /\ DateLess(df.rows[i][c].t, d)}

\* the position of a column among the warehouse columns
WarehouseRank(c) == IndexIn(ColumnsOf(df.columns).warehouse_cols, c)

\* the latest of the visits; among those of one date, the column read last
LatestOf(i, visits) ==
    CHOOSE c \in visits :
        \A x \in visits \ {c} :
            \/ DateLess(df.rows[i][x].t, df.rows[i][c].t)
            \/ /\ df.rows[i][x].t = df.rows[i][c].t
               /\ WarehouseRank(x) < WarehouseRank(c)

SourceAmong(i, visits) ==
    IF visits = {} THEN UNKNOWN
    ELSE normalize_warehouse_name(df.columns[LatestOf(i, visits)])

Deliveries == {k \in 1..Len(movements) : movements[k].TxID[3] = "DELIVERY"}

\* C10, as the code has it: the source of every delivery is the last warehouse
\* the record visited at a timestamp not later than the delivery's (of several
\* at the latest such timestamp, the one in the later warehouse column), or
\* 'UNKNOWN' without such a visit; a warehouse visited at the timestamp of the
\* site visit is the source.
C10_DeliverySource ==
    \A k \in Deliveries :
        movements[k].Loc_From =
            SourceAmong(movements[k].Case_No[2], VisitsUpTo(movements[k].Case_No[2],
                                                             movements[k].Date))

C10_Witness ==
    \E k \in Deliveries :
        /\ VisitsUpTo(movements[k].Case_No[2], movements[k].Date)
              # VisitsBefore(movements[k].Case_No[2], movements[k].Date)
        /\ movements[k].Loc_From # UNKNOWN

\* C10, as stated: the source of every delivery is the last warehouse the
\* record visited at a timestamp strictly earlier than the delivery's, or
\* 'UNKNOWN' without such a visit.
C10_StrictlyEarlier ==
    \A k \in Deliveries :
        movements[k].Loc_From =
            SourceAmong(movements[k].Case_No[2], VisitsBefore(movements[k].Case_No[2],
                                                               movements[k].Date))

\* C11, as stated: for the empty movement stream the aggregator returns the
\* empty ledger, and the report of either validator on it is no failure: it
\* carries no error and validation_passed is not false.
C11_NoDataIsNoFailure ==
    /\ (pc = "validated" /\ monthly_results = NoResults) =>
          /\ validation.status = "ok"
          /\ validation.validation_passed # FALSE
          /\ validation.errors = <<>>
    /\ (pc = "checked" /\ corrected_results = NoResults) =>
          /\ corrected_validation.status = "ok"
          /\ corrected_validation.validation_passed # FALSE
          /\ corrected_validation.errors = <<>>

\* C12, as stated: for any set of records, extraction, aggregation and
\* validation run to completion: neither validate_calculations nor
\* create_proper_monthly_warehouse_analysis ends in an exception.
C12_NeverAborts ==
    /\ validation.status \in {"none", "ok"}
    /\ corrected_results.status \in {"empty", "ok"}
    /\ corrected_validation.status \in {"none", "ok"}

\* the record a movement comes from, and what its dimension and quantity
\* cells hold
RecordOf(m) == df.rows[m.Case_No[2]]

NotANumber(cell) == ~cell.na /\ cell.n.nan

DimensionsAbsent ==
    ColumnsOf(df.columns).length_col = 0 \/ ColumnsOf(df.columns).width_col = 0

DimensionUnparsable(m) ==
    /\ ~DimensionsAbsent
    /\ \/ NotANumber(RecordOf(m)[ColumnsOf(df.columns).length_col])
       \/ NotANumber(RecordOf(m)[ColumnsOf(df.columns).width_col])

\* C13, as stated: every movement of a record whose length or width is present
\* but is no number, or whose frame has no dimension columns, carries SQM = 0,
\* a number and never NaN.
C13_AreaDefaultsToZero ==
    \A k \in 1..Len(movements) :
        (DimensionsAbsent \/ DimensionUnparsable(movements[k]))
            => movements[k].SQM = Num(0)

QtyAbsent == ColumnsOf(df.columns).qty_col = 0

QtyCell(m) == RecordOf(m)[ColumnsOf(df.columns).qty_col]

\* C14, as stated: every movement carries a quantity of at least 1: the
\* quantity of its record when that is a number of at least 1, and the default
\* 1 when the quantity column is missing or the cell holds no number; the
\* default is applied in no other case.
C14_QuantityAtLeastOne ==
    \A k \in 1..Len(movements) :
        /\ movements[k].Qty >= Whole(1)
        /\ IF QtyAbsent THEN movements[k].Qty = Whole(1)
           ELSE IF QtyCell(movements[k]).n.nan THEN movements[k].Qty = Whole(1)
           ELSE /\ QtyCell(movements[k]).n.v >= Whole(1)
                      => movements[k].Qty = QtyCell(movements[k]).n.v
                /\ QtyCell(movements[k]).n.v # Whole(1)
                      => movements[k].Qty # Whole(1)

\* the canonical names in the order of the rules: indoor or m44, markaz or m1,
\* outdoor, mosb, mzp, dhl, aaa
NamesInOrder == << <<"D", "S", "V", " ", "I", "n", "d", "o", "o", "r">>, <<"D", "S", "V", " ", "A", "l", " ", "M", "a", "r", "k", "a", "z">>, <<"D", "S", "V", " ", "O", "u", "t", "d", "o", "o", "r">>, <<"M", "O", "S", "B">>, <<"D", "S", "V", " ", "M", "Z", "P">>, <<"D", "H", "L", " ", "W", "H">>, <<"A", "A", "A", " ", "S", "t", "o", "r", "a", "g", "e">> >>

LeastRule(rules) == CHOOSE r \in rules \ {0} : \A q \in rules \ {0} : r <= q

\* C15: the name returned for a label that carries keywords is the canonical
\* name of the first rule, in the fixed order, one of whose keywords occurs in
\* the label, whatever the case the label is spelled in.
C15_FirstRuleInOrder ==
    pc = "named" =>
        \A l \in Labels :
            (l.text = label /\ l.rules # {0})
                => canonical = NamesInOrder[LeastRule(l.rules)]

\* a label in mixed case whose later-ranked keyword comes first in the text
C15_Witness ==
    /\ pc = "named"
    /\ label = <<"O", "u", "t", "d", "o", "o", "r", " ", "M", "A", "R", "K", "A", "Z">>
    /\ canonical = <<"D", "S", "V", " ", "A", "l", " ", "M", "a", "r", "k", "a", "z">>

\* C16: a label that carries no keyword is returned unchanged, in the same
\* spelling and case.
C16_UnmatchedUnchanged ==
    pc = "named" =>
        \A l \in Labels :
            (l.text = label /\ l.rules = {0}) => canonical = label

C16_Witness ==
    /\ pc = "named"
    /\ label = <<"S", "h", "e", "d", " ", "Y", "A", "R", "D">>
    /\ canonical = <<"S", "h", "e", "d", " ", "Y", "A", "R", "D">>

\* the ledger and the report of the warehouse file alone
LedgerAlone ==
    calculate_monthly_warehouse_stock(extract_warehouse_movements(df, SOURCE_FILE))

ReportAlone ==
    validate_calculations(LedgerAlone,
        calculate_daily_stock(extract_warehouse_movements(df, SOURCE_FILE)))

\* C17: the cost records of the invoice never enter the movement stream, and
\* the ledger and the validation report of a run are those of the warehouse
\* file alone, whatever the invoice sheet holds.
C17_CostLeavesLedgerAlone ==
    /\ \A k \in 1..Len(movements) : movements[k].TxType # "COST"
    /\ pc = "nodata" => extract_warehouse_movements(df, SOURCE_FILE) = <<>>
    /\ (pc = "validated" /\ run = 1) =>
          /\ monthly_results = LedgerAlone
          /\ validation = ReportAlone

\* a run with cost records and a validated ledger
C17_Witness ==
    /\ pc = "validated" /\ run = 1
    /\ all_cost_records # <<>>
    /\ cost_analysis # NoCostAnalysis
    /\ monthly_results.status = "ok"
    /\ validation.status = "ok"

\* the date of the visit of record i in column c, and the quantity of record i
VisitDate(i, c) == df.rows[i][c].t

RecordQty(i) == df.rows[i][ColumnsOf(df.columns).qty_col].n.v

\* the order of the visits of record i: by date; at one date the warehouses
\* ahead of the sites; within either group by the position of the column
Precedes(i, x, y) ==
    \/ DateLess(VisitDate(i, x), VisitDate(i, y))
    \/ /\ VisitDate(i, x) = VisitDate(i, y)
       /\ \/ IsWarehouse(x) /\ IsSite(y)
          \/ IsWarehouse(x) = IsWarehouse(y) /\ x < y

\* visit y comes next after visit x
Follows(i, x, y) ==
    /\ Precedes(i, x, y)
    /\ ~ \E c \in Visits(i) : Precedes(i, x, c) /\ Precedes(i, c, y)

Transfers(i) ==
    {p \in Visits(i) \X Visits(i) :
        IsWarehouse(p[1]) /\ IsWarehouse(p[2]) /\ Follows(i, p[1], p[2])}

\* the canonical name of the warehouse column c, as read off the frame
NameOf(c) == ColumnsOf(df.columns).location[c]

\* the ledger has a row of the location and month with at least that much
\* inbound, or outbound
BookedIn(stock_df, location, date, qty) ==
    \E r \in Range(stock_df) :
        /\ r.Location = location
        /\ r.YearMonth = YearMonthOf(date)
        /\ r.Inbound_Qty >= qty

BookedOut(stock_df, location, date, qty) ==
    \E r \in Range(stock_df) :
        /\ r.Location = location
        /\ r.YearMonth = YearMonthOf(date)
        /\ r.Outbound_Qty >= qty

\* C18: for a warehouse visit that comes next after another warehouse visit of
\* the record, the stream holds an OUT from the previous warehouse dated at the
\* previous visit and, right after it, an IN to the current warehouse dated at
\* the current visit, both of the record's quantity; the ledger books the
\* debit in the month of the previous visit and the credit in the month of the
\* current one.
C18_TransferDates ==
    pc \in {"extracted", "validated", "checked"} =>
        \A i \in 1..Len(df.rows) : \A p \in Transfers(i) :
            /\ \E k \in 1..(Len(movements) - 1) :
                  /\ movements[k].Case_No = <<"case", i>>
                  /\ movements[k].TxType = "OUT"
                  /\ movements[k].TxID[3] = "OUT"
                  /\ movements[k].Loc_From = NameOf(p[1])
                  /\ movements[k].Loc_To = None
                  /\ movements[k].Date = VisitDate(i, p[1])
                  /\ movements[k].Qty = RecordQty(i)
                  /\ movements[k + 1].Case_No = <<"case", i>>
                  /\ movements[k + 1].TxType = "IN"
                  /\ movements[k + 1].Loc_From = NameOf(p[1])
                  /\ movements[k + 1].Loc_To = NameOf(p[2])
                  /\ movements[k + 1].Date = VisitDate(i, p[2])
                  /\ movements[k + 1].Qty = RecordQty(i)
            /\ pc \in {"validated", "checked"} =>
                  /\ BookedOut(Detail(monthly_results), NameOf(p[1]),
                               VisitDate(i, p[1]), RecordQty(i))
                  /\ BookedIn(Detail(monthly_results), NameOf(p[2]),
                              VisitDate(i, p[2]), RecordQty(i))
            /\ pc = "checked" =>
                  /\ BookedOut(Detail(corrected_results), NameOf(p[1]),
                               VisitDate(i, p[1]), RecordQty(i))
                  /\ BookedIn(Detail(corrected_results), NameOf(p[2]),
                              VisitDate(i, p[2]), RecordQty(i))

\* a transfer whose two visits fall in different months, in both ledgers
C18_Witness ==
    /\ pc = "checked"
    /\ \E i \in 1..Len(df.rows) : \E p \in Transfers(i) :
          YearMonthOf(VisitDate(i, p[1])) # YearMonthOf(VisitDate(i, p[2]))

SiteVisits(i) == {c \in Visits(i) : IsSite(c)}

WarehouseVisits(i) == {c \in Visits(i) : IsWarehouse(c)}

\* the warehouse visits of record i that stand before its visit of site s
WarehousesAhead(i, s) == {c \in WarehouseVisits(i) : Precedes(i, c, s)}

\* the one of the visits that stands last
Nearest(i, visits) == CHOOSE c \in visits : \A x \in visits \ {c} : Precedes(i, x, c)

DeliveriesOf(i, s) ==
    {k \in Deliveries :
        /\ movements[k].Case_No = <<"case", i>>
        /\ movements[k].Site = df.columns[s]}

DebitsOn(i, location) ==
    {k \in 1..Len(movements) :
        /\ movements[k].Case_No = <<"case", i>>
        /\ movements[k].TxType = "OUT"
        /\ movements[k].Loc_From = location}

\* C19: in the stream the extractor returns, every site visit of a record has
\* exactly one DELIVERY movement, dated at the visit, of the record's quantity,
\* whose source is the warehouse visit that stands nearest before it in the
\* sorted visits, or 'UNKNOWN'; and a record with one warehouse visit followed
\* by k site visits has k debits on that warehouse.
C19_DeliveryPerSiteVisit ==
    pc \in {"extracted", "nodata"} =>
        \A i \in 1..Len(df.rows) :
            /\ \A s \in SiteVisits(i) :
                  /\ Cardinality(DeliveriesOf(i, s)) = 1
                  /\ \A k \in DeliveriesOf(i, s) :
                        /\ movements[k].TxType = "OUT"
                        /\ movements[k].Date = VisitDate(i, s)
                        /\ movements[k].Qty = RecordQty(i)
                        /\ movements[k].Loc_To = None
                        /\ movements[k].Loc_From =
                              IF WarehousesAhead(i, s) = {} THEN UNKNOWN
                              ELSE NameOf(Nearest(i, WarehousesAhead(i, s)))
            /\ Cardinality({k \in Deliveries : movements[k].Case_No = <<"case", i>>})
                  = Cardinality(SiteVisits(i))
            /\ \A w \in WarehouseVisits(i) :
                  (WarehouseVisits(i) = {w} /\ \A s \in SiteVisits(i) : Precedes(i, w, s))
                      => Cardinality(DebitsOn(i, NameOf(w))) = Cardinality(SiteVisits(i))

\* one warehouse visit followed by two site visits
C19_Witness ==
    /\ pc = "extracted"
    /\ \E i \in 1..Len(df.rows) : \E w \in WarehouseVisits(i) :
          /\ WarehouseVisits(i) = {w}
          /\ Cardinality(SiteVisits(i)) = 2
          /\ \A s \in SiteVisits(i) : DateLess(VisitDate(i, w), VisitDate(i, s))
          /\ Cardinality(DebitsOn(i, NameOf(w))) = 2

\* the movements that stand for the visits themselves: the IN of a warehouse
\* visit and the DELIVERY of a site visit
Arrivals(i) ==
    {k \in 1..Len(movements) :
        /\ movements[k].Case_No = <<"case", i>>
        /\ movements[k].TxID[3] \in {"IN", "DELIVERY"}}

ColumnOf(k) == IndexIn(df.columns, movements[k].TxID[2])

CreditsOf(i, c) ==
    {k \in 1..Len(movements) :
        /\ movements[k].Case_No = <<"case", i>>
        /\ movements[k].TxType = "IN"
        /\ movements[k].Loc_To = NameOf(c)
        /\ movements[k].Date = VisitDate(i, c)}

\* the warehouse visits of record i that come next before its visit c
WarehouseJustBefore(i, c) == {x \in WarehouseVisits(i) : Follows(i, x, c)}

\* C21, as the code has it: in the stream the extractor returns, every
\* warehouse visit of a record has exactly one IN into that warehouse dated at
\* the visit; its source is null exactly when the visit is the first of the
\* record or comes next after a site visit, and is otherwise the warehouse of
\* the visit just before it.
C21_CreditPerWarehouseVisit ==
    pc \in {"extracted", "nodata"} =>
        \A i \in 1..Len(df.rows) :
            /\ Cardinality({k \in 1..Len(movements) :
                               /\ movements[k].Case_No = <<"case", i>>
                               /\ movements[k].TxType = "IN"})
                  = Cardinality(WarehouseVisits(i))
            /\ \A c \in WarehouseVisits(i) :
                  /\ Cardinality(CreditsOf(i, c)) = 1
                  /\ \A k \in CreditsOf(i, c) :
                        /\ movements[k].Qty = RecordQty(i)
                        /\ movements[k].Loc_From =
                              IF WarehouseJustBefore(i, c) = {} THEN None
                              ELSE NameOf(CHOOSE x \in WarehouseJustBefore(i, c) : TRUE)

\* a warehouse visit that comes next after a site visit, with a warehouse
\* visit before the two
C21_Witness ==
    /\ pc = "extracted"
    /\ \E i \in 1..Len(df.rows) : \E c \in WarehouseVisits(i) :
          /\ WarehouseJustBefore(i, c) = {}
          /\ WarehousesAhead(i, c) # {}
          /\ \A k \in CreditsOf(i, c) : movements[k].Loc_From = None

\* C21, as stated: the source of the IN of a warehouse visit is null exactly
\* when no warehouse visit precedes it in the sorted visits of the record, and
\* otherwise names a preceding warehouse.
C21_NullOnlyWithoutPredecessor ==
    pc \in {"extracted", "nodata"} =>
        \A i \in 1..Len(df.rows) : \A c \in WarehouseVisits(i) :
            \A k \in CreditsOf(i, c) :
                IF WarehousesAhead(i, c) = {}
                THEN movements[k].Loc_From = None
                ELSE movements[k].Loc_From \in {NameOf(x) : x \in WarehousesAhead(i, c)}

\* the months in which a stream has a movement, and its movements that credit
\* or debit a location
MonthsOf(stream) == {YearMonthOf(stream[k].Date) : k \in 1..Len(stream)}

Touching(stream, location) ==
    SelectSeq(stream, LAMBDA m :
        \/ m.TxType = "IN" /\ m.Loc_To = location
        \/ m.TxType = "OUT" /\ m.Loc_From = location)

LedgerOfLocation(results, location) ==
    SelectSeq(Detail(results), LAMBDA r : r.Location = location)

\* C22: for two streams with movements in the same months and with the same
\* movements crediting or debiting a location, the rows of that location in the
\* two monthly ledgers are identical, whatever the streams hold for other
\* locations.
C22_OwnMovementsOnly ==
    pc = "compared" =>
        \A location \in SampleLocations :
            (/\ MonthsOf(movements) = MonthsOf(other_movements)
             /\ Touching(movements, location) = Touching(other_movements, location))
                => LedgerOfLocation(monthly_results, location)
                      = LedgerOfLocation(other_results, location)

\* two streams that agree on a location with a running balance and differ on
\* the other location
C22_Witness ==
    /\ pc = "compared"
    /\ MonthsOf(movements) = MonthsOf(other_movements)
    /\ \E location \in SampleLocations :
          /\ Touching(movements, location) = Touching(other_movements, location)
          /\ Len(Touching(movements, location)) >= 2
          /\ \E r \in Range(LedgerOfLocation(monthly_results, location)) :
                r.Closing_Stock # 0
          /\ \E l2 \in SampleLocations :
                /\ Touching(movements, l2) # Touching(other_movements, l2)
                /\ LedgerOfLocation(monthly_results, l2)
                      # LedgerOfLocation(other_results, l2)

\* the locations of a ledger whose inbound minus outbound differs from the
\* closing of the last row by more than the tolerance
Unbalanced(stock_df) ==
    {l \in {r.Location : r \in Range(stock_df)} :
        Differs(LastRow(stock_df, l).Closing_Stock, NetFlow(stock_df, l))}

ReportsEach(report, locations) ==
    /\ report.status = "ok"
    /\ locations # {} => report.validation_passed = FALSE
    /\ \A l \in locations :
          \E k \in 1..Len(report.errors) : report.errors[k].Location = l

\* C23, as stated: whenever the table given to a validator has a location
\* whose total inbound minus total outbound differs from the closing of its
\* last row by more than 0.01, the report of the validator has an error for
\* that location and validation_passed is false.
C23_BalanceErrorReported ==
    /\ (pc = "validated" /\ Detail(monthly_results) # <<>>)
          => ReportsEach(validation, Unbalanced(Detail(monthly_results)))
    /\ (pc = "checked" /\ Detail(corrected_results) # <<>>)
          => ReportsEach(corrected_validation, Unbalanced(Detail(corrected_results)))

\* C24, as stated: a column is taken as a site visit only when its label is
\* exactly one of the site identifiers DAS, MIR, SHU, AGI: the site of every
\* DELIVERY movement is one of them, and a dated column whose label is none of
\* them gives no delivery.
C24_SitesByExactLabel ==
    \A k \in 1..Len(movements) :
        movements[k].TxID[3] = "DELIVERY" => movements[k].Site \in SiteIdentifiers

\* a stream without its deliveries from 'UNKNOWN'
WithoutUnknown(stream) == SelectSeq(stream, LAMBDA m : m.Loc_From # UNKNOWN)

NoUnknownRow(table) ==
    \A k \in 1..Len(table) : table[k].Location # UNKNOWN /\ table[k].Location # None

\* every row of the ledger made without the deliveries from 'UNKNOWN' is a row
\* of the ledger made with them, and the rows that come on top of these are
\* rows without movement that close as they open
SameValues(with, without) ==
    /\ Range(without) \subseteq Range(with)
    /\ \A r \in Range(with) \ Range(without) :
          /\ r.Inbound_Qty = 0
          /\ r.Outbound_Qty = 0
          /\ r.Closing_Stock = r.Opening_Stock

\* C25: no row of the monthly ledger of either aggregator or of the daily
\* table has location 'UNKNOWN' or null, and the deliveries from 'UNKNOWN'
\* change no value of any location: the daily table is the one of the stream
\* without them, and so is every monthly row, but for rows without movement in
\* the months only these deliveries are dated in.
C25_UnknownIsNoLocation ==
    /\ NoUnknownRow(Detail(monthly_results))
    /\ NoUnknownRow(Detail(corrected_results))
    /\ NoUnknownRow(daily_stock)
    /\ (pc = "validated" /\ run = 1 /\ monthly_results.status = "ok") =>
          /\ daily_stock = calculate_daily_stock(WithoutUnknown(movements))
          /\ SameValues(Detail(monthly_results),
                        Detail(calculate_monthly_warehouse_stock(WithoutUnknown(movements))))
    /\ (pc = "checked" /\ corrected_results.status = "ok") =>
          SameValues(Detail(corrected_results),
                     Detail(create_proper_monthly_warehouse_analysis(
                                WithoutUnknown(movements))))

\* a ledger of a stream with a delivery from 'UNKNOWN' in a month of its own
C25_Witness ==
    /\ pc = "checked"
    /\ corrected_results.status = "ok"
    /\ \E k \in 1..Len(movements) :
          /\ movements[k].Loc_From = UNKNOWN
          /\ \A j \in 1..Len(movements) :
                j # k => YearMonthOf(movements[j].Date) # YearMonthOf(movements[k].Date)
    /\ \E r \in Range(Detail(monthly_results)) : r.Closing_Stock # 0
    /\ daily_stock # <<>>

\* every site visit of every record comes next after a warehouse visit
DeliveredFromWarehouse ==
    \A i \in 1..Len(df.rows) :
        \A s \in SiteVisits(i) : WarehouseJustBefore(i, s) # {}

LedgerLocations(stream) ==
    ({m.Loc_To : m \in {x \in Range(stream) : x.TxType = "IN"}}
        \cup {m.Loc_From : m \in {x \in Range(stream) : x.TxType = "OUT"}})
    \ {UNKNOWN, None}

\* the row of a location is in a month before every movement of the location
BeforeFirstMovement(stream, r) ==
    \A k \in 1..Len(Touching(stream, r.Location)) :
        MonthLess(r.YearMonth, YearMonthOf(Touching(stream, r.Location)[k].Date))

OneRowPerLocationAndMonth(stock_df, stream) ==
    /\ \A k \in 1..Len(stock_df) :
          /\ stock_df[k].Location \in LedgerLocations(stream)
          /\ stock_df[k].YearMonth \in MonthsOf(stream)
    /\ \A l \in LedgerLocations(stream) :
          \A m \in MonthsOf(stream) :
              Cardinality({k \in 1..Len(stock_df) :
                              stock_df[k].Location = l /\ stock_df[k].YearMonth = m}) = 1
    /\ \A r \in Range(stock_df) :
          BeforeFirstMovement(stream, r) =>
              /\ r.Opening_Stock = 0
              /\ r.Inbound_Qty = 0
              /\ r.Outbound_Qty = 0
              /\ r.Closing_Stock = 0

\* C27: the monthly ledger of either aggregator has exactly one row for every
\* location other than 'UNKNOWN' and every month a movement of the stream is
\* dated in, the movements of 'UNKNOWN' included, and no other row, so that all
\* locations have the same months; a row in a month before the first movement
\* of its location opens at 0, has no inbound and no outbound and closes at 0.
C27_RowPerLocationAndMonth ==
    /\ (pc = "validated" /\ run = 1 /\ monthly_results.status = "ok") =>
          OneRowPerLocationAndMonth(Detail(monthly_results), movements)
    /\ (pc = "checked" /\ corrected_results.status = "ok") =>
          OneRowPerLocationAndMonth(Detail(corrected_results), movements)

\* a ledger with a row of zeros ahead of the first movement of its location
C27_Witness ==
    /\ pc = "checked"
    /\ corrected_results.status = "ok"
    /\ Cardinality(MonthsOf(movements)) > 1
    /\ \E r \in Range(Detail(corrected_results)) :
          /\ BeforeFirstMovement(movements, r)
          /\ EntryOf(r) \in Entries(Detail(monthly_results))

\* C28: for a stream extracted from a frame with at least one warehouse visit,
\* the corrected engine and the pipeline aggregator return the same rows, in
\* the same order: the same location and month, and the same opening,
\* inbound, outbound and closing value.
C28_SameLedger ==
    (pc = "checked" /\ \E i \in 1..Len(df.rows) : WarehouseVisits(i) # {}) =>
        /\ corrected_results.status = "ok"
        /\ monthly_results.status = "ok"
        /\ Len(Detail(corrected_results)) = Len(Detail(monthly_results))
        /\ \A k \in 1..Len(Detail(monthly_results)) :
              EntryOf(Detail(corrected_results)[k]) = EntryOf(Detail(monthly_results)[k])

\* both ledgers of a stream with a transfer and a delivery, over two months
C28_Witness ==
    /\ pc = "checked"
    /\ corrected_results.status = "ok"
    /\ \E k \in 1..Len(movements) : movements[k].TxID[3] = "OUT"
    /\ \E k \in 1..Len(movements) : movements[k].TxID[3] = "DELIVERY"
    /\ Cardinality(MonthsOf(movements)) > 1
    /\ \E r \in Range(Detail(corrected_results)) : r.Closing_Stock > 0

\* the day rows of a location, in the order of the table
DaysOf(location) == SelectSeq(daily_stock, LAMBDA r : r.Location = location)

\* C29: for every location other than 'UNKNOWN', the last day row of the
\* daily table and the last month row of the monthly ledger of the same
\* stream close at the same value; every day row closes at its opening plus
\* its inbound minus its outbound, and opens at the closing of the day row
\* before it of the same location.
C29_DailyEndsAsMonthly ==
    (pc = "validated" /\ run = 1) =>
        \A l \in LedgerLocations(movements) :
            /\ DaysOf(l) # <<>>
            /\ RowsAt(Detail(monthly_results), l) # {}
            /\ DaysOf(l)[Len(DaysOf(l))].Closing_Stock
                   = LastRow(Detail(monthly_results), l).Closing_Stock
            /\ \A k \in 1..Len(DaysOf(l)) :
                  /\ DaysOf(l)[k].Closing_Stock
                         = DaysOf(l)[k].Opening_Stock + DaysOf(l)[k].Inbound
                               - DaysOf(l)[k].Outbound
                  /\ k > 1 => /\ DaysOf(l)[k].Opening_Stock = DaysOf(l)[k - 1].Closing_Stock
                              /\ DateLess(DaysOf(l)[k - 1].Date, DaysOf(l)[k].Date)

\* a location credited on one day and debited on a later day of another month
C29_Witness ==
    /\ pc = "validated"
    /\ run = 1
    /\ \E l \in LedgerLocations(movements) :
          /\ Len(DaysOf(l)) > 1
          /\ DaysOf(l)[1].Closing_Stock > 0
          /\ DaysOf(l)[2].Outbound > 0
          /\ YearMonthOf(DaysOf(l)[1].Date) # YearMonthOf(DaysOf(l)[2].Date)

\* the rules ahead of rule i whose keyword the text holds
RulesAhead(text, i) ==
    {j \in 1..(i - 1) : \E k \in canonical_rules[j].keys : Contains(lower(text), k)}

\* C30: normalize_warehouse_name gives for the name it returned that name
\* again; each canonical name is returned for itself, and holds no keyword of
\* a rule ahead of its own.
C30_Idempotent ==
    pc = "renamed" =>
        /\ renamed = canonical
        /\ \A i \in 1..Len(canonical_rules) :
              canonical = canonical_rules[i].name =>
                  /\ normalize_warehouse_name(canonical_rules[i].name) = canonical_rules[i].name
                  /\ RulesAhead(canonical_rules[i].name, i) = {}

\* a label of another spelling named by a rule after the first, and the name
\* given again
C30_Witness ==
    /\ pc = "renamed"
    /\ label # canonical
    /\ \E i \in 2..Len(canonical_rules) : canonical = canonical_rules[i].name
    /\ renamed = canonical

====
